---- MODULE Spec2Model ----
(***************************************************************************)
(* Model of the renderer's unified icon cache (lib/icon-cache) and of the  *)
(* SourceAvatar hooks that consume it.                                     *)
(*                                                                         *)
(* Strings are sequences of characters (one-character TLA+ strings; an     *)
(* opaque run of characters whose inside no operation inspects is one      *)
(* element).  null and undefined are two reserved one-element sequences,   *)
(* so that every JavaScript value of the model is a sequence.              *)
(***************************************************************************)
EXTENDS Integers, Sequences, FiniteSets, TLC

\* ------------------------------------------------------------------------
\* JavaScript values
\* ------------------------------------------------------------------------
Null == <<"#null">>
Undefined == <<"#undefined">>
\* what a rejected promise / an escaping exception is recorded as
Thrown == <<"#thrown">>

Truthy(v) == v # Null /\ v # Undefined /\ v # Thrown /\ v # <<>>

\* a ?? b
Nullish(a, b) == IF a = Null \/ a = Undefined THEN b ELSE a

StartsWith(s, p) == Len(s) >= Len(p) /\ SubSeq(s, 1, Len(p)) = p

EndsWith(s, p) == Len(s) >= Len(p) /\ SubSeq(s, Len(s) - Len(p) + 1, Len(s)) = p

\* Map.get / Map.set / Map.delete on a function whose DOMAIN is the key set
MapGet(m, k) == IF k \in DOMAIN m THEN m[k] ELSE Undefined

MapSet(m, k, v) == [x \in DOMAIN m \cup {k} |-> IF x = k THEN v ELSE m[x]]

\* Map.delete of every key of a set
MapDeleteAll(m, keys) == [x \in DOMAIN m \ keys |-> m[x]]

EmptyMap == [x \in {} |-> Null]

\* ------------------------------------------------------------------------
\* Cache keys: `{type}:{workspaceId}:{identifier}`
\* ------------------------------------------------------------------------
Colon == <<":">>
SourcePrefix == <<"s", "o", "u", "r", "c", "e", ":">>
SkillPrefix == <<"s", "k", "i", "l", "l", ":">>
StatusPrefix == <<"s", "t", "a", "t", "u", "s", ":">>

\* const cacheKey = `${workspaceId}:${config.slug}`
CacheKey(workspaceId, slug) == workspaceId \o Colon \o slug

SourceKey(key) == SourcePrefix \o key
SkillKey(key) == SkillPrefix \o key
StatusKey(key) == StatusPrefix \o key

\* const logoCacheKey = `${serviceUrl}:${provider ?? ''}`
LogoCacheKey(serviceUrl, provider) == serviceUrl \o Colon \o Nullish(provider, <<>>)

\* ------------------------------------------------------------------------
\* Emoji detection
\* ------------------------------------------------------------------------
\* Characters the model draws icons from, by Unicode property.
\*   "fire"  U+1F525  Emoji_Presentation, astral (2 UTF-16 units)
\*   "man"   U+1F468  Emoji_Presentation, astral
\*   "heart" U+2764   Emoji, text presentation by default, 1 unit
\*   "VS16"  U+FE0F   variation selector 16
\*   "ZWJ"   U+200D   zero width joiner
\*   "tone"  U+1F3FD  skin tone modifier: Emoji_Presentation, astral
\*   "riU", "riS"  U+1F1FA, U+1F1F8  regional indicators: Emoji_Presentation, astral
EmojiPresentation == {"fire", "man", "tone", "riU", "riS"}
Emoji == EmojiPresentation \cup {"heart"}
Astral == {"fire", "man", "tone", "riU", "riS"}

\* str.length: UTF-16 code units
RECURSIVE JsLength(_)
JsLength(str) == IF str = <<>> THEN 0
                 ELSE (IF Head(str) \in Astral THEN 2 ELSE 1) + JsLength(Tail(str))

\* one (?:\p{Emoji_Presentation}|\p{Emoji}\uFE0F) at the head of str: the numbers
\* of characters it can take (the matcher backtracks from the first alternative
\* to the second), none when there is no match
EmojiUnits(str) ==
    {n \in {1, 2} :
        \/ n = 1 /\ str # <<>> /\ Head(str) \in EmojiPresentation
        \/ n = 2 /\ Len(str) >= 2 /\ str[1] \in Emoji /\ str[2] = "VS16"}

\* (?:\u200D(?:...))*$ on the rest of the string
RECURSIVE EmojiTail(_)
EmojiTail(str) ==
    \/ str = <<>>
    \/ /\ Head(str) = "ZWJ"
       /\ \E n \in EmojiUnits(Tail(str)) :
            EmojiTail(SubSeq(Tail(str), n + 1, Len(Tail(str))))

EMOJI_REGEX(str) ==
    \E n \in EmojiUnits(str) : EmojiTail(SubSeq(str, n + 1, Len(str)))

MaxEmojiLength == 8

\* isEmoji with a test that matches nothing
isEmojiNever(str) == FALSE

isEmoji(str) == JsLength(str) <= MaxEmojiLength /\ EMOJI_REGEX(str)

EMOJI_ICON_PREFIX == <<"e", "m", "o", "j", "i", ":">>

\* ------------------------------------------------------------------------
\* SVG theming
\* ------------------------------------------------------------------------
\* getForegroundColor(): the computed --foreground, or the fallback
FallbackColor == <<"#e3e2e5">>

getForegroundColor(computedColor) ==
    IF Truthy(computedColor) THEN computedColor ELSE FallbackColor

CurrentColorTokens == {"currentColor", "currentcolor", "CURRENTCOLOR"}

\* processed.replace(/currentColor/gi, color)
RECURSIVE ReplaceCurrentColor(_, _)
ReplaceCurrentColor(svg, color) ==
    IF svg = <<>> THEN <<>>
    ELSE (IF Head(svg) \in CurrentColorTokens THEN color ELSE <<Head(svg)>>)
         \o ReplaceCurrentColor(Tail(svg), color)

SvgOpen == {"<svg", "<SVG"}
FillWords == {"fill", "FILL"}
Whitespace == {" "}
\* characters after which \b matches in front of a letter
NonWord == {" ", "-", "\"", "<svg", "<SVG"}

\* index of the first `>` at or after position i, 0 when there is none
RECURSIVE FirstClose(_, _)
FirstClose(svg, i) ==
    IF i > Len(svg) THEN 0
    ELSE IF svg[i] = ">" THEN i
    ELSE FirstClose(svg, i + 1)

\* index of the first `<svg` that a `>` follows, 0 when there is none
RECURSIVE FirstRoot(_, _)
FirstRoot(svg, i) ==
    IF i > Len(svg) THEN 0
    ELSE IF svg[i] \in SvgOpen /\ FirstClose(svg, i + 1) > 0 THEN i
    ELSE FirstRoot(svg, i + 1)

\* position after the \s* that starts at i
RECURSIVE SkipSpace(_, _)
SkipSpace(attrs, i) ==
    IF i <= Len(attrs) /\ attrs[i] \in Whitespace THEN SkipSpace(attrs, i + 1) ELSE i

\* /\bfill\s*=/i.test(attrs)
HasFill(attrs) ==
    \E i \in 1..Len(attrs) :
        /\ attrs[i] \in FillWords
        /\ (i = 1 \/ attrs[i - 1] \in NonWord)
        /\ SkipSpace(attrs, i + 1) <= Len(attrs)
        /\ attrs[SkipSpace(attrs, i + 1)] = "="

\* a theming pass that leaves every tag as it is
InjectRootFillNever(svg, color) == svg

\* processed.replace(/<svg([^>]*)>/i, ...): the root tag only
InjectRootFill(svg, color) ==
    LET r == FirstRoot(svg, 1)
        c == FirstClose(svg, r + 1)
        attrs == SubSeq(svg, r + 1, c - 1)
    IN  IF r = 0 \/ HasFill(attrs) THEN svg
        ELSE SubSeq(svg, 1, r - 1) \o <<"<svg">> \o attrs
             \o <<" ", "fill", "=", "\"">> \o color \o <<"\"", ">">>
             \o SubSeq(svg, c + 1, Len(svg))

themeSvgContent(svgContent, foregroundColor) ==
    LET color == Nullish(foregroundColor, getForegroundColor(<<>>))
    IN  InjectRootFill(ReplaceCurrentColor(svgContent, color), color)

\* btoa throws on any character outside Latin-1
NonLatin1 == {"\\u2713"}
DataUrlPrefix == <<"data:image/svg+xml;base64,">>

Btoa(str) ==
    IF \E i \in 1..Len(str) : str[i] \in NonLatin1 THEN Thrown
    ELSE <<"base64(">> \o str \o <<")">>

svgToThemedDataUrl(svgContent, foregroundColor) ==
    LET b == Btoa(themeSvgContent(svgContent, foregroundColor))
    IN  IF b = Thrown THEN Thrown ELSE DataUrlPrefix \o b

\* ------------------------------------------------------------------------
\* Inputs
\* ------------------------------------------------------------------------
W == <<"w">>
ServiceU == <<"https", ":", "//u">>
ServiceV == <<"https", ":", "//v">>
ServiceLinear == <<"https", ":", "//api.linear.app">>
DotSlash == <<".", "/">>
DotSvg == <<".svg">>
SourcesDir == <<"s", "o", "u", "r", "c", "e", "s", "/">>
SkillsDir == <<"s", "k", "i", "l", "l", "s", "/">>
IconSvg == <<"icon", ".svg">>
IconPng == <<"icon", ".png">>

\* LoadedSource objects ({ config: SourceConfig, workspaceId }) handed to the cache
SourceNames == {"emoji", "local", "api", "other"}

Source(name) ==
    CASE name = "emoji" ->
           [workspaceId |-> W,
            config |-> [slug |-> <<"a">>, type |-> "mcp", icon |-> <<"fire">>,
                        provider |-> Undefined, mcpUrl |-> ServiceU, apiUrl |-> Undefined]]
      [] name = "local" ->
           [workspaceId |-> W,
            config |-> [slug |-> <<"a">>, type |-> "mcp", icon |-> DotSlash \o <<"l", ".png">>,
                        provider |-> <<"p">>, mcpUrl |-> ServiceU, apiUrl |-> Undefined]]
      [] name = "api" ->
           [workspaceId |-> W,
            config |-> [slug |-> <<"b">>, type |-> "api", icon |-> Undefined,
                        provider |-> Undefined, mcpUrl |-> Undefined, apiUrl |-> ServiceV]]
      [] name = "linear" ->
           [workspaceId |-> W,
            config |-> [slug |-> <<"linear">>, type |-> "mcp", icon |-> Undefined,
                        provider |-> <<"p">>, mcpUrl |-> ServiceLinear, apiUrl |-> Undefined]]
      [] name = "nourl" ->
           [workspaceId |-> W,
            config |-> [slug |-> <<"c">>, type |-> "mcp", icon |-> Undefined,
                        provider |-> Undefined, mcpUrl |-> Undefined, apiUrl |-> ServiceV]]
      [] OTHER ->
           [workspaceId |-> W,
            config |-> [slug |-> <<"b">>, type |-> "local", icon |-> <<"https", ":", "//i">>,
                        provider |-> Undefined, mcpUrl |-> ServiceU, apiUrl |-> Undefined]]

\* SkillConfig objects
SkillNames == {"skill", "nopath", "badpath"}

Skill(name) ==
    CASE name = "skill" ->
           [slug |-> <<"k">>,
            iconPath |-> <<"/", "ws", "/", "skills", "/", "k", "/", "icon", ".svg">>]
      [] name = "nopath" -> [slug |-> <<"k">>, iconPath |-> Undefined]
      [] OTHER -> [slug |-> <<"k">>, iconPath |-> <<"/", "ws", "/", "k", "/", "icon", ".svg">>]

\* what window.electronAPI.readWorkspaceImage / getLogoUrl may answer
Resolve(v) == [ok |-> TRUE, val |-> v]
Rejection == [ok |-> FALSE, val |-> <<>>]

FileContents(relativePath) ==
    IF EndsWith(relativePath, DotSvg)
    THEN {<<"<svg", ">", "<path", " ", "fill", "=", "\"", "currentColor", "\"", "/>">> \o relativePath,
          <<"<svg", ">", "\\u2713">>}
    ELSE {<<"data:image/png;base64,">> \o relativePath}

ReadAnswers(relativePath) == {Rejection} \cup {Resolve(c) : c \in FileContents(relativePath)}

LogoUrls == {<<"https", ":", "//logo">>}
LogoAnswers == {Rejection, Resolve(Null)} \cup {Resolve(u) : u \in LogoUrls}

\* the (serviceUrl, provider) props of an avatar in direct-props mode
LogoInputs == {"none", "u"}

LogoInput(i) ==
    IF i = "u" THEN [serviceUrl |-> ServiceV, provider |-> <<"b">>]
    ELSE [serviceUrl |-> Null, provider |-> Undefined]

\* const cacheKey = `${serviceUrl}:${provider ?? ''}`
LogoHookKey(i) == LogoCacheKey(LogoInput(i).serviceUrl, LogoInput(i).provider)

StatusValues == {<<"data:image/png;base64,", "status">>}
StatusPaths == {<<"statuses/icons/", "todo", ".svg">>}

\* ------------------------------------------------------------------------
\* State
\* ------------------------------------------------------------------------
VARIABLES
    iconCache,      \* export const iconCache = new Map<string, string>()
    logoUrlCache,   \* export const logoUrlCache = new Map<string, string | null>()
    calls,          \* the loadSourceIcon / loadSkillIcon invocations
    hook,           \* the useSourceIcon instance of one mounted SourceAvatar
    logoHook,       \* the useLogoUrl instance of one SourceAvatar in direct-props mode
    logoRequests,   \* the getLogoUrl calls of useLogoUrl effects that have not settled
    last,           \* history: the invocation that settled last, 0 once a clear has run
    nullResolved,   \* history: the logo keys for which a getLogoUrl call of
                    \* loadSourceIcon resolved to null since logoUrlCache was last cleared
    probe,          \* the last synchronous call made from outside: its function,
                    \* its arguments and what it returned
    page            \* the mounted AppSettingsPage: its React state, the refs of
                    \* useApiKeyAutoSave, its timers and its handlers in flight

vars == <<iconCache, logoUrlCache, calls, hook, logoHook, logoRequests, last, nullResolved,
          probe, page>>

NoProbe == [fn |-> "none", arg |-> <<>>, out |-> Undefined]

\* how many loadSourceIcon / loadSkillIcon invocations one behaviour issues
MaxCalls == 2

\* the invocations, numbered in the order they are issued
Ids == 1..MaxCalls

\* fn, input: the function called and its argument; pc: "idle" before the call,
\* then the collaborator call it is suspended on, then "resolved" or "rejected";
\* trace: the collaborator calls it has issued, in order, each with what came back;
\* owner: "hook" for a call issued by useSourceIcon's effect, with that effect's
\* `cancelled` flag and whether its then/catch callback has run (`delivered`);
\* raced (history): whether, while this invocation was suspended, something else
\* stored a value under a key this invocation had looked up and found empty.
IdleCall == [fn |-> "none", input |-> "none", pc |-> "idle", trace |-> <<>>,
             result |-> Undefined, owner |-> "none", cancelled |-> FALSE,
             delivered |-> FALSE, raced |-> FALSE]

\* sourceIconCache.get reading the bare key, without the view's prefix
sourceIconCacheGetUnprefixed(icon, key) == MapGet(icon, key)

\* sourceIconCache / skillIconCache / statusIconCache: views into iconCache
sourceIconCacheGet(icon, key) == MapGet(icon, SourceKey(key))
sourceIconCacheSet(icon, key, value) == MapSet(icon, SourceKey(key), value)
skillIconCacheGet(icon, key) == MapGet(icon, SkillKey(key))
skillIconCacheSet(icon, key, value) == MapSet(icon, SkillKey(key), value)
statusIconCacheSet(icon, key, value) == MapSet(icon, StatusKey(key), value)
statusIconCacheGet(icon, key) == MapGet(icon, StatusKey(key))

\* the skill prefix test cut down to its first character
IsSkillKeyLoose(k) == StartsWith(k, <<"s">>)

IsSourceKey(k) == StartsWith(k, SourcePrefix)
IsSkillKey(k) == StartsWith(k, SkillPrefix)
IsStatusKey(k) == StartsWith(k, StatusPrefix)

sourceIconCacheClear(icon) == MapDeleteAll(icon, {k \in DOMAIN icon : IsSourceKey(k)})
skillIconCacheClear(icon) == MapDeleteAll(icon, {k \in DOMAIN icon : IsSkillKey(k)})
statusIconCacheClear(icon) == MapDeleteAll(icon, {k \in DOMAIN icon : IsStatusKey(k)})

\* ------------------------------------------------------------------------
\* loadSourceIcon, from one suspension point to the next
\* ------------------------------------------------------------------------
\* A run of synchronous code works on st = [call, icon, logo]: the invocation
\* and the two caches as it leaves them.
Return(st, value) == [st EXCEPT !.call.pc = "resolved", !.call.result = value]

Throw(st) == [st EXCEPT !.call.pc = "rejected", !.call.result = Thrown]

\* a collaborator call is issued and the invocation suspends on it
Await(st, tier, arg) ==
    [st EXCEPT !.call.pc = tier,
               !.call.trace = Append(@, [tier |-> tier, arg |-> arg, out |-> Undefined])]

\* the pending collaborator call has settled with `out`
Settled(call, out) == [call EXCEPT !.trace[Len(call.trace)].out = out]

PendingArg(call) == call.trace[Len(call.trace)].arg

\* the return without the sourceIconCache.set before it
ReturnWithoutCaching(st, cacheKey, value) == Return(st, value)

\* a set that keeps the entry already there
CacheUnlessPresent(st, cacheKey, value) ==
    IF sourceIconCacheGet(st.icon, cacheKey) # Undefined THEN Return(st, value)
    ELSE Return([st EXCEPT !.icon = sourceIconCacheSet(@, cacheKey, value)], value)

\* a resolver that drops the result of a call whose consumer has gone away
CacheUnlessCancelled(st, cacheKey, value) ==
    IF st.call.cancelled THEN Return(st, value)
    ELSE Return([st EXCEPT !.icon = sourceIconCacheSet(@, cacheKey, value)], value)

\* a store that builds the cache anew around the one entry
CacheAndReturnAlone(st, cacheKey, value) ==
    Return([st EXCEPT !.icon = sourceIconCacheSet(EmptyMap, cacheKey, value)], value)

CacheAndReturn(st, cacheKey, value) ==
    Return([st EXCEPT !.icon = sourceIconCacheSet(@, cacheKey, value)], value)

\* a derivation that does not look at the type of the source
deriveServiceUrlAnyType(config) ==
    IF Truthy(config.mcpUrl) THEN config.mcpUrl
    ELSE IF Truthy(config.apiUrl) THEN config.apiUrl
    ELSE Null

deriveServiceUrl(config) ==
    IF config.type = "mcp" /\ Truthy(config.mcpUrl) THEN config.mcpUrl
    ELSE IF config.type = "api" /\ Truthy(config.apiUrl) THEN config.apiUrl
    ELSE Null

\* loadWorkspaceIcon with its try/catch taken away: a failure propagates
loadWorkspaceIconNoCatch(relativePath, answer) ==
    IF ~answer.ok THEN Thrown
    ELSE IF EndsWith(relativePath, DotSvg)
         THEN svgToThemedDataUrl(answer.val, Undefined)
         ELSE answer.val

\* async function loadWorkspaceIcon: what it returns for the collaborator's answer
loadWorkspaceIcon(relativePath, answer) ==
    IF ~answer.ok THEN Null
    ELSE IF EndsWith(relativePath, DotSvg)
         THEN LET url == svgToThemedDataUrl(answer.val, Undefined)
              IN  IF url = Thrown THEN Null ELSE url
         ELSE answer.val

SourceCacheKey(source) == CacheKey(source.workspaceId, source.config.slug)

\* the provider field taken before the slug
SourceProviderFieldFirst(source) == Nullish(source.config.provider, source.config.slug)

SourceProvider(source) == Nullish(source.config.slug, source.config.provider)

SourceLogoKey(source) ==
    LogoCacheKey(deriveServiceUrl(source.config), SourceProvider(source))

\* the logo cache check as a truthiness test: a cached null is taken for a miss
LogoCacheHitTruthy(cachedLogoUrl) == Truthy(cachedLogoUrl)

\* if (cachedLogoUrl !== undefined)
LogoCacheHit(cachedLogoUrl) == cachedLogoUrl # Undefined

\* Priority 5, up to the getLogoUrl call
FaviconTier(st, source) ==
    LET serviceUrl == deriveServiceUrl(source.config)
        provider == SourceProvider(source)
        cachedLogoUrl == MapGet(st.logo, LogoCacheKey(serviceUrl, provider))
    IN  IF ~Truthy(serviceUrl) THEN Return(st, Null)
        ELSE IF LogoCacheHit(cachedLogoUrl)
             THEN IF Truthy(cachedLogoUrl)
                  THEN CacheAndReturn(st, SourceCacheKey(source), cachedLogoUrl)
                  ELSE Return(st, cachedLogoUrl)
        ELSE Await(st, "logo", <<serviceUrl, provider>>)

\* Priority 3 & 4: sources/{slug}/icon.svg, then sources/{slug}/icon.png
AutoDiscoverSvg(st, source) ==
    Await(st, "svg", <<source.workspaceId,
                       SourcesDir \o source.config.slug \o <<"/">> \o IconSvg>>)

AutoDiscoverPng(st, source) ==
    Await(st, "png", <<source.workspaceId,
                       SourcesDir \o source.config.slug \o <<"/">> \o IconPng>>)

\* a failed explicit local load ends the resolution
NextTierExplicitEnds(st, source, tier) ==
    CASE tier = "explicit" -> Return(st, Null)
      [] tier = "svg" -> AutoDiscoverPng(st, source)
      [] OTHER -> FaviconTier(st, source)

\* what follows a tier's loadWorkspaceIcon when it returned nothing
NextTier(st, source, tier) ==
    CASE tier = "explicit" -> AutoDiscoverSvg(st, source)
      [] tier = "svg" -> AutoDiscoverPng(st, source)
      [] OTHER -> FaviconTier(st, source)

\* const loaded = await loadWorkspaceIcon(...); if (loaded) { set; return }
AfterLocal(st, source, tier, loaded) ==
    IF loaded = Thrown THEN Throw(st)
    ELSE IF Truthy(loaded) THEN CacheAndReturn(st, SourceCacheKey(source), loaded)
    ELSE NextTier(st, source, tier)

\* a favicon tier that fills logoUrlCache only
AfterLogoUrlCacheOnly(st, source, answer) ==
    LET logoCacheKey == SourceLogoKey(source)
    IN  IF answer.ok
        THEN Return([st EXCEPT !.logo = MapSet(@, logoCacheKey, answer.val)], answer.val)
        ELSE Return([st EXCEPT !.logo = MapSet(@, logoCacheKey, Null)], Null)

\* a catch block that returns null and leaves logoUrlCache alone
AfterLogoCatchUncached(st, source, answer) ==
    LET logoCacheKey == SourceLogoKey(source)
    IN  IF answer.ok
        THEN LET stored == [st EXCEPT !.logo = MapSet(@, logoCacheKey, answer.val)]
             IN  IF Truthy(answer.val)
                 THEN CacheAndReturn(stored, SourceCacheKey(source), answer.val)
                 ELSE Return(stored, answer.val)
        ELSE Return(st, Null)

\* a catch block that calls getLogoUrl again
AfterLogoRetrying(st, source, answer) ==
    LET logoCacheKey == SourceLogoKey(source)
    IN  IF answer.ok
        THEN LET stored == [st EXCEPT !.logo = MapSet(@, logoCacheKey, answer.val)]
             IN  IF Truthy(answer.val)
                 THEN CacheAndReturn(stored, SourceCacheKey(source), answer.val)
                 ELSE Return(stored, answer.val)
        ELSE Await(st, "logo", <<deriveServiceUrl(source.config), SourceProvider(source)>>)

\* try { logoUrl = await getLogoUrl(...) ... } catch { ... }
AfterLogo(st, source, answer) ==
    LET logoCacheKey == SourceLogoKey(source)
    IN  IF answer.ok
        THEN LET stored == [st EXCEPT !.logo = MapSet(@, logoCacheKey, answer.val)]
             IN  IF Truthy(answer.val)
                 THEN CacheAndReturn(stored, SourceCacheKey(source), answer.val)
                 ELSE Return(stored, answer.val)
        ELSE Return([st EXCEPT !.logo = MapSet(@, logoCacheKey, Null)], Null)

\* a cache check that never hits
CacheHitNever(cached) == FALSE

\* the cache check: if (cached) return cached
CacheHit(cached) == Truthy(cached)

\* from the call to the first suspension point
loadSourceIconStart(st, source) ==
    LET cacheKey == SourceCacheKey(source)
        cached == sourceIconCacheGet(st.icon, cacheKey)
        icon == source.config.icon
    IN  IF CacheHit(cached) THEN Return(st, cached)
        ELSE IF Truthy(icon) /\ isEmoji(icon)
             THEN CacheAndReturn(st, cacheKey, EMOJI_ICON_PREFIX \o icon)
        ELSE IF icon # Undefined /\ StartsWith(icon, DotSlash)
             THEN Await(st, "explicit",
                        <<source.workspaceId,
                          SourcesDir \o source.config.slug \o <<"/">>
                            \o SubSeq(icon, 3, Len(icon))>>)
        ELSE AutoDiscoverSvg(st, source)

\* a synchronous read that finds nothing
getSourceIconSyncNever(icon, workspaceId, slug) == Null

\* a synchronous read that looks under the skill prefix
getSourceIconSyncSkillPrefix(icon, workspaceId, slug) ==
    Nullish(skillIconCacheGet(icon, CacheKey(workspaceId, slug)), Null)

getSourceIconSync(icon, workspaceId, slug) ==
    Nullish(sourceIconCacheGet(icon, CacheKey(workspaceId, slug)), Null)

\* ------------------------------------------------------------------------
\* loadSkillIcon
\* ------------------------------------------------------------------------
\* path segments in which /skills\// can match: they end in "skills"
SkillsWords == {"skills", "myskills"}

\* index of the first "/" at or after position i, 0 when there is none
RECURSIVE FirstSlash(_, _)
FirstSlash(path, i) ==
    IF i > Len(path) THEN 0
    ELSE IF path[i] = "/" THEN i
    ELSE FirstSlash(path, i + 1)

\* whether /skills\/([^/]+)\/(.+)$/ matches with `skills` at position i
SkillsMatchAt(path, i) ==
    /\ i + 1 <= Len(path)
    /\ path[i] \in SkillsWords
    /\ path[i + 1] = "/"
    /\ FirstSlash(path, i + 2) > i + 2
    /\ FirstSlash(path, i + 2) < Len(path)

\* iconPath.match(/skills\/([^/]+)\/(.+)$/): <<group 1, group 2>>, or Null
RECURSIVE SkillsMatchFrom(_, _)
SkillsMatchFrom(path, i) ==
    IF i > Len(path) THEN Null
    ELSE IF SkillsMatchAt(path, i)
         THEN <<SubSeq(path, i + 2, FirstSlash(path, i + 2) - 1),
                SubSeq(path, FirstSlash(path, i + 2) + 1, Len(path))>>
    ELSE SkillsMatchFrom(path, i + 1)

SkillsMatch(iconPath) == SkillsMatchFrom(iconPath, 1)

SkillRelativePath(skillsMatch) == SkillsDir \o skillsMatch[1] \o <<"/">> \o skillsMatch[2]

\* from the call to the readWorkspaceImage call
loadSkillIconStart(st, skill, workspaceId) ==
    LET cached == skillIconCacheGet(st.icon, CacheKey(workspaceId, skill.slug))
        skillsMatch == SkillsMatch(skill.iconPath)
    IN  IF ~Truthy(skill.iconPath) THEN Return(st, Null)
        ELSE IF CacheHit(cached) THEN Return(st, cached)
        ELSE IF skillsMatch = Null THEN Return(st, Null)
        ELSE Await(st, "read", <<workspaceId, SkillRelativePath(skillsMatch)>>)

\* a catch block that remembers the failure in the cache
AfterSkillReadCachingFailure(st, skill, workspaceId, relativePath, answer) ==
    LET url == IF EndsWith(relativePath, DotSvg)
               THEN svgToThemedDataUrl(answer.val, Undefined)
               ELSE answer.val
        stored == IF ~answer.ok \/ url = Thrown THEN Null ELSE url
    IN  Return([st EXCEPT !.icon =
                   skillIconCacheSet(@, CacheKey(workspaceId, skill.slug), stored)], stored)

\* try { result = await readWorkspaceImage(...) ... } catch { return null }
AfterSkillRead(st, skill, workspaceId, relativePath, answer) ==
    LET url == IF EndsWith(relativePath, DotSvg)
               THEN svgToThemedDataUrl(answer.val, Undefined)
               ELSE answer.val
    IN  IF ~answer.ok \/ url = Thrown THEN Return(st, Null)
        ELSE Return([st EXCEPT !.icon =
                        skillIconCacheSet(@, CacheKey(workspaceId, skill.slug), url)], url)

getSkillIconSync(icon, workspaceId, slug) ==
    Nullish(skillIconCacheGet(icon, CacheKey(workspaceId, slug)), Null)

\* ------------------------------------------------------------------------
\* Actions: the cache module
\* ------------------------------------------------------------------------
St(p) == [call |-> calls[p], icon |-> iconCache, logo |-> logoUrlCache]

Suspended(call) == call.pc \in {"explicit", "svg", "png", "logo", "read"}

\* the iconCache key an invocation looked up when it was issued
IconKeyOf(call) ==
    IF call.fn = "source" THEN SourceKey(SourceCacheKey(Source(call.input)))
    ELSE SkillKey(CacheKey(W, Skill(call.input).slug))

Stored(old, new, k) == k \in DOMAIN new /\ MapGet(old, k) # new[k]

\* history: a suspended invocation notes a store under a key it found empty
NoteRace(call, icon, logo) ==
    IF /\ Suspended(call)
       /\ \/ Stored(iconCache, icon, IconKeyOf(call))
          \/ /\ call.pc = "logo"
             /\ Stored(logoUrlCache, logo, SourceLogoKey(Source(call.input)))
    THEN [call EXCEPT !.raced = TRUE]
    ELSE call

NoteRequestRace(r, logo) ==
    IF Stored(logoUrlCache, logo, LogoHookKey(r.input)) THEN [r EXCEPT !.raced = TRUE] ELSE r

\* invocation p has run up to its next suspension point (or to its return) as st
Commit(p, st) ==
    /\ calls' = [q \in Ids |-> IF q = p THEN st.call
                               ELSE NoteRace(calls[q], st.icon, st.logo)]
    /\ iconCache' = st.icon
    /\ logoUrlCache' = st.logo
    /\ logoRequests' = {NoteRequestRace(r, st.logo) : r \in logoRequests}
    /\ last' = IF st.call.pc \in {"resolved", "rejected"} THEN p ELSE last

NewCall(fn, input, owner) ==
    [IdleCall EXCEPT !.fn = fn, !.input = input, !.owner = owner, !.pc = "start"]

\* a queue of resolutions: the next one is issued once the earlier ones have settled
IsNextSerialised(p) ==
    /\ calls[p].pc = "idle"
    /\ \A q \in Ids : q < p => calls[q].pc \in {"resolved", "rejected"}

\* invocation p is the next one to be issued
IsNext(p) ==
    /\ calls[p].pc = "idle"
    /\ \A q \in Ids : q < p => calls[q].pc # "idle"

Settledp(p) == calls[p].pc \in {"resolved", "rejected"}

\* a caller other than the avatar hook calls loadSourceIcon(source)
StartSource(p, s) ==
    /\ IsNext(p)
    /\ Commit(p, loadSourceIconStart(
                    [St(p) EXCEPT !.call = NewCall("source", s, "direct")], Source(s)))
    /\ UNCHANGED <<hook, logoHook, nullResolved>>
    /\ UNCHANGED <<probe, page>>

\* a caller calls loadSkillIcon(skill, workspaceId)
StartSkill(p, k) ==
    /\ IsNext(p)
    /\ Commit(p, loadSkillIconStart(
                    [St(p) EXCEPT !.call = NewCall("skill", k, "direct")], Skill(k), W))
    /\ UNCHANGED <<hook, logoHook, nullResolved>>
    /\ UNCHANGED <<probe, page>>

\* readWorkspaceImage settles for a loadSourceIcon invocation
SettleRead(p) ==
    /\ calls[p].fn = "source"
    /\ calls[p].pc \in {"explicit", "svg", "png"}
    /\ \E answer \in ReadAnswers(PendingArg(calls[p])[2]) :
         LET loaded == loadWorkspaceIcon(PendingArg(calls[p])[2], answer)
         IN  Commit(p, AfterLocal([St(p) EXCEPT !.call = Settled(calls[p], loaded)],
                                  Source(calls[p].input), calls[p].pc, loaded))
    /\ UNCHANGED <<hook, logoHook, nullResolved>>
    /\ UNCHANGED <<probe, page>>

\* getLogoUrl settles for a loadSourceIcon invocation
SettleLogo(p) ==
    /\ calls[p].fn = "source"
    /\ calls[p].pc = "logo"
    /\ \E answer \in LogoAnswers :
         /\ Commit(p, AfterLogo([St(p) EXCEPT !.call =
                                    Settled(calls[p], IF answer.ok THEN answer.val ELSE Thrown)],
                                Source(calls[p].input), answer))
         /\ nullResolved' = IF answer.ok /\ answer.val = Null
                            THEN nullResolved \cup {SourceLogoKey(Source(calls[p].input))}
                            ELSE nullResolved
    /\ UNCHANGED <<hook, logoHook>>
    /\ UNCHANGED <<probe, page>>

\* readWorkspaceImage settles for a loadSkillIcon invocation
SettleSkillRead(p) ==
    /\ calls[p].fn = "skill"
    /\ calls[p].pc = "read"
    /\ \E answer \in ReadAnswers(PendingArg(calls[p])[2]) :
         Commit(p, AfterSkillRead([St(p) EXCEPT !.call =
                                      Settled(calls[p], IF answer.ok THEN answer.val ELSE Thrown)],
                                  Skill(calls[p].input), W, PendingArg(calls[p])[2], answer))
    /\ UNCHANGED <<hook, logoHook, nullResolved>>
    /\ UNCHANGED <<probe, page>>

\* a renderer calls getSourceIconSync(workspaceId, slug)
ReadSourceSync(workspaceId, slug) ==
    /\ probe' = [fn |-> "getSourceIconSync", arg |-> <<workspaceId, slug>>,
                 out |-> getSourceIconSync(iconCache, workspaceId, slug)]
    /\ UNCHANGED <<iconCache, logoUrlCache, calls, hook, logoHook, logoRequests,
                   last, nullResolved, page>>

\* a renderer calls getSkillIconSync(workspaceId, slug)
ReadSkillSync(workspaceId, slug) ==
    /\ probe' = [fn |-> "getSkillIconSync", arg |-> <<workspaceId, slug>>,
                 out |-> getSkillIconSync(iconCache, workspaceId, slug)]
    /\ UNCHANGED <<iconCache, logoUrlCache, calls, hook, logoHook, logoRequests,
                   last, nullResolved, page>>

clearIconCaches ==
    /\ iconCache' = EmptyMap
    /\ logoUrlCache' = EmptyMap
    /\ last' = 0
    /\ nullResolved' = {}
    /\ UNCHANGED <<calls, hook, logoHook, logoRequests>>
    /\ UNCHANGED <<probe, page>>

clearSourceIconCaches ==
    /\ iconCache' = sourceIconCacheClear(iconCache)
    /\ logoUrlCache' = EmptyMap
    /\ last' = 0
    /\ nullResolved' = {}
    /\ UNCHANGED <<calls, hook, logoHook, logoRequests>>
    /\ UNCHANGED <<probe, page>>

\* clearSkillIconCaches emptying the logo-URL store as clearSourceIconCaches does
clearSkillIconCachesAndLogo ==
    /\ iconCache' = skillIconCacheClear(iconCache)
    /\ logoUrlCache' = EmptyMap
    /\ last' = 0
    /\ nullResolved' = {}
    /\ UNCHANGED <<calls, hook, logoHook, logoRequests, probe, page>>

clearSkillIconCaches ==
    /\ iconCache' = skillIconCacheClear(iconCache)
    /\ last' = 0
    /\ UNCHANGED <<logoUrlCache, calls, hook, logoHook, logoRequests, nullResolved>>
    /\ UNCHANGED <<probe, page>>

clearStatusIconCaches ==
    /\ iconCache' = statusIconCacheClear(iconCache)
    /\ last' = 0
    /\ UNCHANGED <<logoUrlCache, calls, hook, logoHook, logoRequests, nullResolved>>
    /\ UNCHANGED <<probe, page>>

\* a status icon is stored through the statusIconCache view
StatusSet(path, value) ==
    /\ iconCache' = statusIconCacheSet(iconCache, CacheKey(W, path), value)
    /\ UNCHANGED <<logoUrlCache, calls, hook, logoHook, logoRequests, last, nullResolved,
                   page>>
    /\ UNCHANGED <<probe, page>>

\* ------------------------------------------------------------------------
\* useSourceIcon
\* ------------------------------------------------------------------------
HookSources == SourceNames \cup {"undefined"}

\* current (history): the invocation issued by the effect that ran last, 0 when
\* that effect issued none
Unmounted == [mounted |-> FALSE, source |-> "undefined", iconUrl |-> Null,
              emojiIcon |-> Null, current |-> 0]

\* the two useState initialisers, run on the first render
HookInitial(icon, s) ==
    LET cached == IF s = "undefined" THEN Null
                  ELSE getSourceIconSync(icon, Source(s).workspaceId, Source(s).config.slug)
    IN  [mounted |-> TRUE, source |-> s, current |-> 0,
         iconUrl |-> IF Truthy(cached) /\ ~StartsWith(cached, EMOJI_ICON_PREFIX)
                     THEN cached ELSE Null,
         emojiIcon |-> IF Truthy(cached) /\ StartsWith(cached, EMOJI_ICON_PREFIX)
                       THEN SubSeq(cached, Len(EMOJI_ICON_PREFIX) + 1, Len(cached))
                       ELSE Null]

\* setters that leave the other piece of state as it was
HookShowOneSetter(h, value) ==
    IF Truthy(value) /\ StartsWith(value, EMOJI_ICON_PREFIX)
    THEN [h EXCEPT !.emojiIcon = SubSeq(value, Len(EMOJI_ICON_PREFIX) + 1, Len(value))]
    ELSE [h EXCEPT !.iconUrl = value]

\* setEmojiIcon / setIconUrl for a value read from the cache or resolved
HookShow(h, value) ==
    IF Truthy(value) /\ StartsWith(value, EMOJI_ICON_PREFIX)
    THEN [h EXCEPT !.emojiIcon = SubSeq(value, Len(EMOJI_ICON_PREFIX) + 1, Len(value)),
                   !.iconUrl = Null]
    ELSE [h EXCEPT !.iconUrl = value, !.emojiIcon = Null]

\* return () => { cancelled = true }, of the effect that issued h.current
HookCleanup(cs, h) ==
    IF h.current = 0 THEN cs ELSE [cs EXCEPT ![h.current].cancelled = TRUE]

\* the effect, were it to reset both pieces of state before it resolves
HookRenderResetting(s) ==
    /\ s \in HookSources
    /\ ~hook.mounted \/ s # hook.source
    /\ LET h == IF hook.mounted THEN [hook EXCEPT !.source = s, !.current = 0,
                                                !.iconUrl = Null, !.emojiIcon = Null]
                ELSE HookInitial(iconCache, s)
           cs == HookCleanup(calls, hook)
           cached == IF s = "undefined" THEN Null
                     ELSE getSourceIconSync(iconCache, Source(s).workspaceId,
                                            Source(s).config.slug)
       IN  IF s = "undefined"
           THEN /\ hook' = [h EXCEPT !.iconUrl = Null, !.emojiIcon = Null]
                /\ calls' = cs
                /\ UNCHANGED <<iconCache, logoUrlCache, logoRequests, last>>
           ELSE IF Truthy(cached)
           THEN /\ hook' = HookShow(h, cached)
                /\ calls' = cs
                /\ UNCHANGED <<iconCache, logoUrlCache, logoRequests, last>>
           ELSE \E p \in Ids :
                /\ IsNext(p)
                /\ LET st == loadSourceIconStart(
                                [call |-> NewCall("source", s, "hook"),
                                 icon |-> iconCache, logo |-> logoUrlCache], Source(s))
                   IN  /\ calls' = [q \in Ids |-> IF q = p THEN st.call
                                                  ELSE NoteRace(cs[q], st.icon, st.logo)]
                       /\ iconCache' = st.icon
                       /\ logoUrlCache' = st.logo
                       /\ logoRequests' = {NoteRequestRace(r, st.logo) : r \in logoRequests}
                       /\ last' = IF st.call.pc \in {"resolved", "rejected"} THEN p ELSE last
                /\ hook' = [h EXCEPT !.current = p]
    /\ UNCHANGED <<logoHook, nullResolved>>
    /\ UNCHANGED <<probe, page>>

\* the source prop changes (or the avatar mounts with it): the previous effect's
\* cleanup runs, then the effect for the new source
HookRender(s) ==
    /\ s \in HookSources
    /\ ~hook.mounted \/ s # hook.source
    /\ LET h == IF hook.mounted THEN [hook EXCEPT !.source = s, !.current = 0]
                ELSE HookInitial(iconCache, s)
           cs == HookCleanup(calls, hook)
           cached == IF s = "undefined" THEN Null
                     ELSE getSourceIconSync(iconCache, Source(s).workspaceId,
                                            Source(s).config.slug)
       IN  IF s = "undefined"
           THEN /\ hook' = [h EXCEPT !.iconUrl = Null, !.emojiIcon = Null]
                /\ calls' = cs
                /\ UNCHANGED <<iconCache, logoUrlCache, logoRequests, last>>
           ELSE IF Truthy(cached)
           THEN /\ hook' = HookShow(h, cached)
                /\ calls' = cs
                /\ UNCHANGED <<iconCache, logoUrlCache, logoRequests, last>>
           ELSE \E p \in Ids :
                /\ IsNext(p)
                /\ LET st == loadSourceIconStart(
                                [call |-> NewCall("source", s, "hook"),
                                 icon |-> iconCache, logo |-> logoUrlCache], Source(s))
                   IN  /\ calls' = [q \in Ids |-> IF q = p THEN st.call
                                                  ELSE NoteRace(cs[q], st.icon, st.logo)]
                       /\ iconCache' = st.icon
                       /\ logoUrlCache' = st.logo
                       /\ logoRequests' = {NoteRequestRace(r, st.logo) : r \in logoRequests}
                       /\ last' = IF st.call.pc \in {"resolved", "rejected"} THEN p ELSE last
                /\ hook' = [h EXCEPT !.current = p]
    /\ UNCHANGED <<logoHook, nullResolved>>
    /\ UNCHANGED <<probe, page>>

\* the avatar unmounts: the last effect's cleanup runs
HookUnmount ==
    /\ hook.mounted
    /\ calls' = HookCleanup(calls, hook)
    /\ hook' = Unmounted
    /\ UNCHANGED <<iconCache, logoUrlCache, logoHook, logoRequests, last, nullResolved>>
    /\ UNCHANGED <<probe, page>>

\* the callbacks without their `if (cancelled) return`
HookSettledUnguarded(h, call) ==
    IF call.pc = "rejected" THEN [h EXCEPT !.iconUrl = Null, !.emojiIcon = Null]
    ELSE HookShow(h, call.result)

\* .then((result) => { if (cancelled) return ... }).catch(() => { if (cancelled) return ... })
HookSettled(h, call) ==
    IF call.cancelled THEN h
    ELSE IF call.pc = "rejected" THEN [h EXCEPT !.iconUrl = Null, !.emojiIcon = Null]
    ELSE HookShow(h, call.result)

\* the promise of a loadSourceIcon call issued by the hook's effect has settled
HookThen(p) ==
    /\ Settledp(p)
    /\ calls[p].owner = "hook"
    /\ ~calls[p].delivered
    /\ hook' = HookSettled(hook, calls[p])
    /\ calls' = [calls EXCEPT ![p].delivered = TRUE]
    /\ UNCHANGED <<iconCache, logoUrlCache, logoHook, logoRequests, last, nullResolved>>
    /\ UNCHANGED <<probe, page>>

\* export function clearSourceIconCache(): void { clearIconCaches() }
clearSourceIconCache ==
    /\ iconCache' = EmptyMap
    /\ logoUrlCache' = EmptyMap
    /\ last' = 0
    /\ nullResolved' = {}
    /\ UNCHANGED <<calls, hook, logoHook, logoRequests>>
    /\ UNCHANGED <<probe, page>>

\* ------------------------------------------------------------------------
\* useLogoUrl
\* ------------------------------------------------------------------------
\* serviceUrl or provider changes (or the avatar mounts): cleanup, then the effect
LogoHookRender(i) ==
    /\ i \in LogoInputs
    /\ i # logoHook.input
    /\ LET pending == {[r EXCEPT !.cancelled = TRUE] : r \in logoRequests}
           cached == MapGet(logoUrlCache, LogoHookKey(i))
       IN  IF ~Truthy(LogoInput(i).serviceUrl)
           THEN /\ logoHook' = [input |-> i, logoUrl |-> Null]
                /\ logoRequests' = pending
           ELSE IF cached # Undefined
           THEN /\ logoHook' = [input |-> i, logoUrl |-> cached]
                /\ logoRequests' = pending
           ELSE /\ logoHook' = [logoHook EXCEPT !.input = i]
                /\ logoRequests' = pending \cup
                                   {[input |-> i, cancelled |-> FALSE, raced |-> FALSE]}
    /\ UNCHANGED <<iconCache, logoUrlCache, calls, hook, last, nullResolved>>
    /\ UNCHANGED <<probe, page>>

\* the .then and .catch callbacks of useLogoUrl without `if (cancelled) return`
LogoHookSettledUnguarded(r, answer) == IF answer.ok THEN answer.val ELSE Null

\* .then((result) => { if (cancelled) return ... }).catch((error) => { ... })
LogoHookSettled(r, answer) ==
    IF r.cancelled THEN Undefined
    ELSE IF answer.ok THEN answer.val
    ELSE Null

\* getLogoUrl settles for a useLogoUrl effect
LogoHookSettle(r) ==
    /\ r \in logoRequests
    /\ \E answer \in LogoAnswers :
         LET value == LogoHookSettled(r, answer)
             logo == IF value = Undefined THEN logoUrlCache
                     ELSE MapSet(logoUrlCache, LogoHookKey(r.input), value)
         IN  /\ logoUrlCache' = logo
             /\ logoHook' = IF value = Undefined THEN logoHook
                            ELSE [logoHook EXCEPT !.logoUrl = value]
             /\ calls' = [q \in Ids |-> NoteRace(calls[q], iconCache, logo)]
             /\ logoRequests' = {NoteRequestRace(x, logo) : x \in logoRequests \ {r}}
    /\ UNCHANGED <<iconCache, hook, last, nullResolved>>
    /\ UNCHANGED <<probe, page>>

\* every state variable but probe as construction leaves it
NothingLoaded ==
    /\ iconCache = EmptyMap
    /\ logoUrlCache = EmptyMap
    /\ calls = [p \in Ids |-> IdleCall]
    /\ hook = Unmounted
    /\ logoHook = [input |-> "none", logoUrl |-> Null]
    /\ logoRequests = {}
    /\ last = 0
    /\ nullResolved = {}

\* ------------------------------------------------------------------------
\* AppSettingsPage: billing method and the Claude OAuth dialog
\* ------------------------------------------------------------------------
\* String.prototype.trim over the modelled characters
RECURSIVE TrimStart(_)
TrimStart(str) == IF str # <<>> /\ Head(str) = " " THEN TrimStart(Tail(str)) ELSE str

RECURSIVE TrimEnd(_)
TrimEnd(str) ==
    IF str # <<>> /\ str[Len(str)] = " " THEN TrimEnd(SubSeq(str, 1, Len(str) - 1)) ELSE str

Trim(str) == TrimEnd(TrimStart(str))

\* a || b of JavaScript
OrElse(a, b) == IF Truthy(a) THEN a ELSE b

\* what a call of window.electronAPI settles with: ok is resolved or rejected,
\* success / error / token are the fields of the resolved result, thrown is the
\* message of the Error it rejected with (<<>> when the reason is not an Error)
IpcResult(success, error, token) ==
    [ok |-> TRUE, success |-> success, error |-> error, token |-> token, thrown |-> <<>>]
IpcRejected(message) ==
    [ok |-> FALSE, success |-> FALSE, error |-> Undefined, token |-> Undefined,
     thrown |-> message]
IpcRejections == {IpcRejected(<<>>), IpcRejected(<<"boom">>)}
IpcVoid == {IpcResult(TRUE, Undefined, Undefined)} \cup IpcRejections

\* error instanceof Error ? error.message : fallback
ErrorMessage(answer, fallback) == IF answer.thrown # <<>> THEN answer.thrown ELSE fallback

StartAnswers ==
    {IpcResult(TRUE, Undefined, Undefined), IpcResult(FALSE, Undefined, Undefined),
     IpcResult(FALSE, <<"denied">>, Undefined)} \cup IpcRejections
ExchangeAnswers ==
    {IpcResult(TRUE, Undefined, <<"t">>), IpcResult(TRUE, Undefined, Undefined),
     IpcResult(FALSE, <<"bad code">>, Undefined)} \cup IpcRejections

\* what the user can type into the authorization code input
AuthCodes == {<<>>, <<" ">>, <<"c">>, <<" ", "c", " ">>}

\* JSON.stringify({ apiKey, baseUrl, customModelNames }) of serializeConfig; the
\* model keeps the three custom model names empty
SerializeConfig(apiKey, baseUrl) ==
    <<"{\"apiKey\":\"">> \o apiKey \o <<"\",\"baseUrl\":\"">> \o baseUrl
        \o <<"\",\"customModelNames\":{\"opus\":\"\",\"sonnet\":\"\",\"haiku\":\"\"}}">>

\* how many debounce timers a behaviour schedules, and how many saves it has
\* in flight at once
MaxTimers == 4
MaxInFlight == 2

\* the page after its first render and its mount effects. The React state
\* holds the useState initial values; of useApiKeyAutoSave, the initial-load
\* effect has stored the serialized initial values and started its 100 ms
\* timer (initTimer), the debounce effect has returned early (cleanup is
\* whether its last run returned a cleanup function), and loadSettings awaits
\* getBillingMethod. The model follows one invocation of each asynchronous
\* OAuth handler at a time: start, submit, switch and cancel hold where that
\* invocation stands. timers are the pending debounce timers with the values
\* their doSave closes over, saves the updateBillingMethod calls of doSave in
\* flight, notices the delayed onSaveError calls. cleared, debounced,
\* rejected and overtaken are history: whether the last clearClaudeOAuthState
\* call resolved, how many times a debounce timer ran doSave since the form
\* values last changed, whether a save of doSave has ended in its catch block,
\* and which of the handlers in flight ("start", "submit") handleCancelOAuth
\* has run over
PageInitial ==
    [electronAPI |-> TRUE,
     authType |-> "api_key",
     expandedMethod |-> Null,
     hasCredential |-> FALSE,
     apiKeyValue |-> <<>>,
     baseUrlValue |-> <<>>,
     apiKeyError |-> Undefined,
     claudeOAuthStatus |-> "idle",
     claudeOAuthError |-> Undefined,
     isWaitingForCode |-> FALSE,
     authCode |-> <<>>,
     load |-> "pending",
     start |-> "none",
     submit |-> "none",
     code |-> <<>>,
     switch |-> "none",
     trimmedKey |-> Undefined,
     cancel |-> "none",
     cleared |-> "unknown",
     isInitialLoadRef |-> TRUE,
     initTimer |-> TRUE,
     lastSavedRef |-> SerializeConfig(<<>>, <<>>),
     debounceRef |-> 0,
     cleanup |-> FALSE,
     timers |-> {},
     nextTimer |-> 1,
     saves |-> <<>>,
     notices |-> {},
     debounced |-> 0,
     rejected |-> FALSE,
     overtaken |-> {}]

\* the useState values of the page: a render follows when one of them changes
ReactState(pg) ==
    <<pg.authType, pg.expandedMethod, pg.hasCredential, pg.apiKeyValue, pg.baseUrlValue,
      pg.apiKeyError, pg.claudeOAuthStatus, pg.claudeOAuthError, pg.isWaitingForCode,
      pg.authCode>>

\* clearTimeout(id)
ClearTimeoutNoop(timers, id) == timers

ClearTimeout(timers, id) == {t \in timers : t.id # id}

\* the cleanup function the debounce effect returned on its previous run
DebounceCleanup(pg) ==
    IF pg.cleanup /\ pg.debounceRef # 0
    THEN [pg EXCEPT !.timers = ClearTimeout(pg.timers, pg.debounceRef)]
    ELSE pg

\* the debounce effect: doSave is a new function on every render of the page
\* (onSaveSuccess and onSaveError are inline arrows), so the effect runs on
\* every render; the timer closes over the doSave of this render
DebounceEffect(pg) ==
    IF pg.authType # "api_key" \/ pg.isInitialLoadRef
    THEN [pg EXCEPT !.cleanup = FALSE]
    ELSE [pg EXCEPT !.timers = (IF pg.debounceRef # 0
                                THEN ClearTimeout(pg.timers, pg.debounceRef)
                                ELSE pg.timers)
                               \cup {[id |-> pg.nextTimer, authType |-> pg.authType,
                                      apiKey |-> pg.apiKeyValue,
                                      baseUrl |-> pg.baseUrlValue]},
                    !.debounceRef = pg.nextTimer,
                    !.nextTimer = pg.nextTimer + 1,
                    !.cleanup = TRUE]

\* the initial-load effect, run when authType, hasCredential or the form
\* values changed since the previous render
InitialLoadEffect(prev, pg) ==
    IF /\ <<prev.authType, prev.hasCredential, prev.apiKeyValue, prev.baseUrlValue>>
              # <<pg.authType, pg.hasCredential, pg.apiKeyValue, pg.baseUrlValue>>
       /\ pg.authType = "api_key"
       /\ pg.isInitialLoadRef
    THEN [pg EXCEPT !.lastSavedRef = SerializeConfig(pg.apiKeyValue, pg.baseUrlValue),
                    !.initTimer = TRUE]
    ELSE pg

\* the page after state updates took it from prev to next: React renders when
\* the state changed, runs the cleanup of the debounce effect, then the effects
Rendered(prev, next) ==
    IF ReactState(next) = ReactState(prev)
    THEN next
    ELSE InitialLoadEffect(prev, DebounceEffect(DebounceCleanup(next)))

\* a handler leaves the page as next, within the bounds of the model
Renders(next) ==
    /\ page' = Rendered(page, next)
    /\ page'.nextTimer <= MaxTimers + 1
    /\ Len(page'.saves) <= MaxInFlight

\* the icon caches are untouched by the settings page
IconsUnchanged ==
    UNCHANGED <<iconCache, logoUrlCache, calls, hook, logoHook, logoRequests, last,
                nullResolved, probe>>

\* the page is mounted either inside Electron or without the preload bridge
InitPage ==
    /\ NothingLoaded
    /\ probe = NoProbe
    /\ page \in {[PageInitial EXCEPT !.electronAPI = api,
                                     !.load = IF api THEN "pending" ELSE "none"] :
                    api \in BOOLEAN}

DialogOpen == page.expandedMethod = <<"oauth_token">>
DialogIdle == DialogOpen /\ page.claudeOAuthStatus \notin {"loading", "success"}

\* handleMethodClick up to its await
handleMethodClick(method) ==
    /\ IF method = "api_key"
       THEN /\ page.switch # "pending"
            /\ page.authType # "api_key"
            /\ page.electronAPI
            /\ Renders([page EXCEPT !.switch = "pending",
                                    !.trimmedKey = OrElse(Trim(page.apiKeyValue), Undefined)])
       ELSE IF method = page.authType /\ page.hasCredential
       THEN Renders([page EXCEPT !.expandedMethod = Null])
       ELSE Renders([page EXCEPT !.expandedMethod = <<method>>,
                                 !.apiKeyError = Undefined,
                                 !.claudeOAuthStatus = "idle",
                                 !.claudeOAuthError = Undefined])
    /\ IconsUnchanged

\* handleMethodClick('api_key') after updateBillingMethod settled
SettleMethodClick(answer) ==
    /\ page.switch = "pending"
    /\ Renders(IF answer.ok
               THEN [page EXCEPT !.switch = "none",
                                 !.authType = "api_key",
                                 !.hasCredential = Truthy(page.trimmedKey)]
               ELSE [page EXCEPT !.switch = "none"])
    /\ IconsUnchanged

\* handleStartClaudeOAuth up to its await
handleStartClaudeOAuth ==
    /\ DialogIdle
    /\ ~page.isWaitingForCode
    /\ page.start # "pending"
    /\ Renders(IF ~page.electronAPI
               THEN page
               ELSE [page EXCEPT !.claudeOAuthStatus = "loading",
                                 !.claudeOAuthError = Undefined,
                                 !.start = "pending",
                                 !.overtaken = @ \ {"start"}])
    /\ IconsUnchanged

\* handleStartClaudeOAuth after startClaudeOAuth settled
SettleStartClaudeOAuth(answer) ==
    /\ page.start = "pending"
    /\ Renders(IF answer.ok /\ answer.success
               THEN [page EXCEPT !.start = "none",
                                 !.isWaitingForCode = TRUE,
                                 !.claudeOAuthStatus = "idle"]
               ELSE IF answer.ok
               THEN [page EXCEPT !.start = "none",
                                 !.claudeOAuthStatus = "error",
                                 !.claudeOAuthError =
                                     OrElse(answer.error, <<"Failed to start OAuth">>)]
               ELSE [page EXCEPT !.start = "none",
                                 !.claudeOAuthStatus = "error",
                                 !.claudeOAuthError = ErrorMessage(answer, <<"OAuth failed">>)])
    /\ IconsUnchanged

\* onAuthCodeChange of the authorization code input
setAuthCode(value) ==
    /\ DialogIdle
    /\ page.isWaitingForCode
    /\ Renders([page EXCEPT !.authCode = value])
    /\ IconsUnchanged

\* handleSubmit of the dialog calling handleSubmitAuthCode, up to its first await
handleSubmitAuthCode ==
    /\ DialogIdle
    /\ page.isWaitingForCode
    /\ Trim(page.authCode) # <<>>
    /\ page.submit = "none"
    /\ LET code == Trim(page.authCode)
       IN  Renders(IF ~page.electronAPI \/ ~Truthy(Trim(code))
                   THEN [page EXCEPT !.claudeOAuthError =
                                         <<"Please enter the authorization code">>]
                   ELSE [page EXCEPT !.claudeOAuthStatus = "loading",
                                     !.claudeOAuthError = Undefined,
                                     !.submit = "exchange",
                                     !.code = Trim(code),
                                     !.overtaken = @ \ {"submit"}])
    /\ IconsUnchanged

\* the catch block and the else branch of handleSubmitAuthCode, were they to
\* record the credential as well
SubmitFailedSignedIn(message) ==
    [page EXCEPT !.submit = "none",
                 !.authType = "oauth_token",
                 !.hasCredential = TRUE,
                 !.claudeOAuthStatus = "error",
                 !.claudeOAuthError = message]

\* the catch block and the else branch of handleSubmitAuthCode
SubmitFailed(message) ==
    [page EXCEPT !.submit = "none",
                 !.claudeOAuthStatus = "error",
                 !.claudeOAuthError = message]

\* handleSubmitAuthCode after exchangeClaudeCode settled
SettleExchangeClaudeCode(answer) ==
    /\ page.submit = "exchange"
    /\ Renders(IF answer.ok /\ answer.success /\ Truthy(answer.token)
               THEN [page EXCEPT !.submit = "update"]
               ELSE IF answer.ok
               THEN SubmitFailed(OrElse(answer.error, <<"Failed to exchange code">>))
               ELSE SubmitFailed(ErrorMessage(answer, <<"Failed to exchange code">>)))
    /\ IconsUnchanged

\* handleSubmitAuthCode after updateBillingMethod('oauth_token', token) settled
SettleSubmitUpdate(answer) ==
    /\ page.submit = "update"
    /\ Renders(IF answer.ok
               THEN [page EXCEPT !.submit = "none",
                                 !.authType = "oauth_token",
                                 !.hasCredential = TRUE,
                                 !.claudeOAuthStatus = "success",
                                 !.isWaitingForCode = FALSE,
                                 !.authCode = <<>>,
                                 !.expandedMethod = Null]
               ELSE SubmitFailed(ErrorMessage(answer, <<"Failed to exchange code">>)))
    /\ IconsUnchanged

\* the promise of handleCancelOAuth once clearClaudeOAuthState settled without
\* the try / catch around the await
AfterClearOAuthStateUncaught(answer) == IF answer.ok THEN "resolved" ELSE "rejected"

\* the promise of handleCancelOAuth once clearClaudeOAuthState settled: the
\* catch block logs the rejection and the handler returns
AfterClearOAuthState(answer) == "resolved"

\* handleCancelOAuth up to its await: onCancel or the dialog being dismissed
handleCancelOAuth ==
    /\ DialogOpen
    /\ page.cancel # "pending"
    /\ Renders([page EXCEPT !.isWaitingForCode = FALSE,
                            !.authCode = <<>>,
                            !.claudeOAuthStatus = "idle",
                            !.claudeOAuthError = Undefined,
                            !.expandedMethod = Null,
                            !.cancel = IF page.electronAPI THEN "pending" ELSE "resolved",
                            !.overtaken = {h \in {"start", "submit"} : page[h] # "none"}])
    /\ IconsUnchanged

\* handleCancelOAuth after clearClaudeOAuthState settled
SettleCancelOAuth(answer) ==
    /\ page.cancel = "pending"
    /\ Renders([page EXCEPT !.cancel = AfterClearOAuthState(answer),
                            !.cleared = IF answer.ok THEN "yes" ELSE "no"])
    /\ IconsUnchanged

NextOAuth ==
    \/ \E method \in {"api_key", "oauth_token"} : handleMethodClick(method)
    \/ \E answer \in IpcVoid : SettleMethodClick(answer)
    \/ handleStartClaudeOAuth
    \/ \E answer \in StartAnswers : SettleStartClaudeOAuth(answer)
    \/ \E value \in AuthCodes : setAuthCode(value)
    \/ handleSubmitAuthCode
    \/ \E answer \in ExchangeAnswers : SettleExchangeClaudeCode(answer)
    \/ \E answer \in IpcVoid : SettleSubmitUpdate(answer)
    \/ handleCancelOAuth
    \/ \E answer \in IpcVoid : SettleCancelOAuth(answer)

SpecOAuth == InitPage /\ [][NextOAuth]_vars

\* ------------------------------------------------------------------------
\* AppSettingsPage: useApiKeyAutoSave
\* ------------------------------------------------------------------------
\* what the user can type into the API key and base URL inputs
ApiKeys == {<<>>, <<"k">>}
BaseUrls == {<<>>, <<"u">>}

\* what getBillingMethod settles with
Billing(authType, hasCredential, apiKey) ==
    [ok |-> TRUE, authType |-> authType, hasCredential |-> hasCredential,
     apiKey |-> apiKey, anthropicBaseUrl |-> Undefined, thrown |-> <<>>]
BillingAnswers ==
    {Billing("api_key", FALSE, Undefined), Billing("api_key", TRUE, <<"k">>),
     Billing("oauth_token", TRUE, Undefined),
     [ok |-> FALSE, authType |-> "api_key", hasCredential |-> FALSE, apiKey |-> Undefined,
      anthropicBaseUrl |-> Undefined, thrown |-> <<>>]}

\* loadSettings after getBillingMethod and getNotificationsEnabled settled
SettleLoadSettings(answer) ==
    /\ page.load = "pending"
    /\ Renders(IF answer.ok
               THEN [page EXCEPT !.load = "none",
                                 !.authType = answer.authType,
                                 !.hasCredential = answer.hasCredential,
                                 !.apiKeyValue = OrElse(answer.apiKey, <<>>),
                                 !.baseUrlValue = OrElse(answer.anthropicBaseUrl, <<>>),
                                 !.debounced = 0]
               ELSE [page EXCEPT !.load = "none"])
    /\ IconsUnchanged

\* the 100 ms timer of the initial-load effect
FireInitTimer ==
    /\ page.initTimer
    /\ Renders([page EXCEPT !.initTimer = FALSE, !.isInitialLoadRef = FALSE])
    /\ IconsUnchanged

\* onChange of the API key input, rendered while authType is 'api_key'
setApiKeyValue(value) ==
    /\ page.authType = "api_key"
    /\ value # page.apiKeyValue
    /\ Renders([page EXCEPT !.apiKeyValue = value, !.debounced = 0])
    /\ IconsUnchanged

\* onChange of the base URL input
setBaseUrlValue(value) ==
    /\ page.authType = "api_key"
    /\ value # page.baseUrlValue
    /\ Renders([page EXCEPT !.baseUrlValue = value, !.debounced = 0])
    /\ IconsUnchanged

\* the two early returns of doSave, negated, with both guards dropped
doSaveProceedsAlways(authType, currentConfig, lastSaved) == TRUE

\* the two early returns of doSave, negated
doSaveProceeds(authType, currentConfig, lastSaved) ==
    /\ authType = "api_key"
    /\ currentConfig # lastSaved

\* doSave up to its await, with the values its render closed over; a save in
\* flight keeps the authType and currentConfig of its closure and the
\* arguments it passed to updateBillingMethod
doSave(pg, authType, apiKey, baseUrl) ==
    LET currentConfig == SerializeConfig(apiKey, baseUrl)
    IN  IF ~doSaveProceeds(authType, currentConfig, pg.lastSavedRef)
        THEN pg
        ELSE IF ~pg.electronAPI
        THEN \* reading updateBillingMethod throws a TypeError inside the try
             \* block; no time has passed, so onSaveError is delayed
             [pg EXCEPT !.notices = @ \cup {<<"TypeError">>}, !.rejected = TRUE]
        ELSE [pg EXCEPT !.saves = Append(@, [authType |-> authType,
                                              config |-> currentConfig,
                                              trimmedKey |-> Trim(apiKey),
                                              baseUrl |-> OrElse(Trim(baseUrl), Null)])]

\* handleBlur of the latest render
handleBlur ==
    /\ page.authType = "api_key"
    /\ Renders(IF page.isInitialLoadRef
               THEN page
               ELSE doSave(page, page.authType, page.apiKeyValue, page.baseUrlValue))
    /\ IconsUnchanged

\* a debounce timer fires DEBOUNCE_MS after it was scheduled
FireDebounce ==
    /\ \E t \in page.timers :
           Renders(doSave([page EXCEPT !.timers = @ \ {t}, !.debounced = @ + 1],
                          t.authType, t.apiKey, t.baseUrl))
    /\ IconsUnchanged

\* what updateBillingMethod settles with
SaveAnswers == {IpcResult(TRUE, Undefined, Undefined), IpcRejected(<<>>)}

RemoveAt(seq, i) == SubSeq(seq, 1, i - 1) \o SubSeq(seq, i + 1, Len(seq))

\* lastSavedRef after updateBillingMethod settled
AfterSave(lastSaved, save, answer) == IF answer.ok THEN save.config ELSE lastSaved

\* doSave after updateBillingMethod settled; late is whether less than
\* MIN_SAVE_DISPLAY_MS have passed, which delays the callback
SettleSave(i, answer, late) ==
    /\ i \in 1..Len(page.saves)
    /\ LET settled == [page EXCEPT !.saves = RemoveAt(@, i),
                                   !.lastSavedRef = AfterSave(@, page.saves[i], answer),
                                   !.rejected = @ \/ ~answer.ok]
           errorMsg == ErrorMessage(answer, <<"Failed to save">>)
       IN  Renders(IF answer.ok
                   THEN settled
                   ELSE IF late
                   THEN [settled EXCEPT !.notices = @ \cup {errorMsg}]
                   ELSE [settled EXCEPT !.apiKeyError = errorMsg])
    /\ IconsUnchanged

\* a delayed onSaveError runs: setApiKeyError(error)
FireSaveError ==
    /\ \E errorMsg \in page.notices :
           Renders([page EXCEPT !.notices = @ \ {errorMsg}, !.apiKeyError = errorMsg])
    /\ IconsUnchanged

NextAutoSave ==
    \/ \E answer \in BillingAnswers : SettleLoadSettings(answer)
    \/ FireInitTimer
    \/ \E value \in ApiKeys : setApiKeyValue(value)
    \/ \E value \in BaseUrls : setBaseUrlValue(value)
    \/ handleBlur
    \/ FireDebounce
    \/ \E i \in 1..MaxInFlight, answer \in SaveAnswers, late \in BOOLEAN :
           SettleSave(i, answer, late)
    \/ FireSaveError
    \/ \E method \in {"api_key", "oauth_token"} : handleMethodClick(method)
    \/ \E answer \in SaveAnswers : SettleMethodClick(answer)

SpecAutoSave == InitPage /\ [][NextAutoSave]_vars

\* ------------------------------------------------------------------------
\* Specifications
\* ------------------------------------------------------------------------
Init ==
    /\ iconCache = EmptyMap
    /\ logoUrlCache = EmptyMap
    /\ calls = [p \in Ids |-> IdleCall]
    /\ hook = Unmounted
    /\ logoHook = [input |-> "none", logoUrl |-> Null]
    /\ logoRequests = {}
    /\ last = 0
    /\ nullResolved = {}
    /\ probe = NoProbe
    /\ page = PageInitial

\* callers of loadSourceIcon over the cache
Next ==
    \/ \E p \in Ids, s \in SourceNames : StartSource(p, s)
    \/ \E p \in Ids : SettleRead(p)
    \/ \E p \in Ids : SettleLogo(p)
    \/ clearIconCaches
    \/ clearSourceIconCaches

Spec == Init /\ [][Next]_vars

\* resolutions whose readWorkspaceImage and getLogoUrl calls all settle in the end
NextFair ==
    \/ \E p \in Ids : StartSource(p, "local")
    \/ \E p \in Ids : SettleRead(p)
    \/ \E p \in Ids : SettleLogo(p)
    \/ clearIconCaches

SpecFair ==
    /\ Init
    /\ [][NextFair]_vars
    /\ \A p \in Ids : WF_vars(SettleRead(p)) /\ WF_vars(SettleLogo(p))

\* the three kinds of icon in one cache, and the clear operation of each kind
NextInvalidation ==
    \/ \E p \in Ids, s \in {"emoji", "api"} : StartSource(p, s)
    \/ \E p \in Ids, k \in SkillNames : StartSkill(p, k)
    \/ \E p \in Ids : SettleRead(p)
    \/ \E p \in Ids : SettleLogo(p)
    \/ \E p \in Ids : SettleSkillRead(p)
    \/ \E path \in StatusPaths, value \in StatusValues : StatusSet(path, value)
    \/ clearIconCaches
    \/ clearSourceIconCaches
    \/ clearSkillIconCaches
    \/ clearStatusIconCaches
    \/ clearSourceIconCache

SpecInvalidation == Init /\ [][NextInvalidation]_vars

\* a SourceAvatar in source mode over the cache
AvatarSources == {"emoji", "api", "undefined"}

NextAvatar ==
    \/ \E s \in AvatarSources : HookRender(s)
    \/ HookUnmount
    \/ \E p \in Ids : HookThen(p)
    \/ \E p \in Ids : SettleRead(p)
    \/ \E p \in Ids : SettleLogo(p)
    \/ clearIconCaches

SpecAvatar == Init /\ [][NextAvatar]_vars

\* a SourceAvatar in direct-props mode beside callers of the cache that resolve
\* the same service
NextLogo ==
    \/ \E p \in Ids : StartSource(p, "api")
    \/ \E p \in Ids : StartSkill(p, "skill")
    \/ \E p \in Ids : SettleRead(p)
    \/ \E p \in Ids : SettleLogo(p)
    \/ \E p \in Ids : SettleSkillRead(p)
    \/ \E i \in LogoInputs : LogoHookRender(i)
    \/ \E r \in logoRequests : LogoHookSettle(r)
    \/ clearIconCaches

SpecLogo == Init /\ [][NextLogo]_vars

\* how many invocations have been issued
IssuedCount == Cardinality({p \in Ids : calls[p].pc # "idle"})

\* clearIconCaches, were it to abort the invocations in flight
CallClearIconCachesAborting ==
    /\ iconCache' = EmptyMap
    /\ logoUrlCache' = EmptyMap
    /\ last' = 0
    /\ nullResolved' = {}
    /\ calls' = [p \in Ids |-> IF Suspended(calls[p])
                                THEN [calls[p] EXCEPT !.pc = "rejected"]
                                ELSE calls[p]]
    /\ probe' = [fn |-> "clearIconCaches", arg |-> <<IssuedCount>>, out |-> Undefined]
    /\ UNCHANGED <<hook, logoHook, logoRequests, page>>

\* a caller runs clearIconCaches(); probe notes the call and how many
\* invocations had been issued by then
CallClearIconCaches ==
    /\ iconCache' = EmptyMap
    /\ logoUrlCache' = EmptyMap
    /\ last' = 0
    /\ nullResolved' = {}
    /\ probe' = [fn |-> "clearIconCaches", arg |-> <<IssuedCount>>, out |-> Undefined]
    /\ UNCHANGED <<calls, hook, logoHook, logoRequests, page>>

\* resolutions of sources and skills with clearIconCaches running between them
NextClear ==
    \/ \E p \in Ids, s \in {"emoji", "api"} : StartSource(p, s)
    \/ \E p \in Ids, k \in SkillNames : StartSkill(p, k)
    \/ \E p \in Ids : SettleRead(p)
    \/ \E p \in Ids : SettleLogo(p)
    \/ \E p \in Ids : SettleSkillRead(p)
    \/ CallClearIconCaches

SpecClear == Init /\ [][NextClear]_vars

\* an avatar in direct-props mode next to one loadSourceIcon caller of the
\* same service
NextLogoHook ==
    \/ \E i \in LogoInputs : LogoHookRender(i)
    \/ \E r \in logoRequests : LogoHookSettle(r)
    \/ StartSource(1, "api")
    \/ SettleRead(1)
    \/ SettleLogo(1)
    \/ clearIconCaches

SpecLogoHook == Init /\ [][NextLogoHook]_vars

\* sources without local icon files, of every type, down to the favicon tier
FaviconSources == {"linear", "api", "nourl", "other"}

NextFavicon ==
    \/ \E p \in Ids, s \in FaviconSources : StartSource(p, s)
    \/ \E p \in Ids : SettleRead(p)
    \/ \E p \in Ids : SettleLogo(p)
    \/ clearIconCaches
    \/ clearSourceIconCaches

SpecFavicon == Init /\ [][NextFavicon]_vars

\* synchronous reads beside resolutions in flight
ReadSlugs == {<<"a">>, <<"k">>}

NextReads ==
    \/ \E p \in Ids : StartSource(p, "emoji")
    \/ \E p \in Ids : StartSource(p, "api")
    \/ \E p \in Ids : StartSkill(p, "skill")
    \/ \E p \in Ids : SettleRead(p)
    \/ \E p \in Ids : SettleLogo(p)
    \/ \E p \in Ids : SettleSkillRead(p)
    \/ \E slug \in ReadSlugs : ReadSourceSync(W, slug)
    \/ \E slug \in ReadSlugs : ReadSkillSync(W, slug)
    \/ clearIconCaches

SpecReads == Init /\ [][NextReads]_vars

\* a view's set for one (type, workspace, identifier), then a view's get for another
KeyTypes == {"source", "skill", "status"}
KeyWorkspaces == {<<"w">>, <<"w", ":", "a">>}
KeyIdentifiers == {<<"a">>, <<"b">>, <<"a", ":", "b">>}
KeyTriples == KeyTypes \X KeyWorkspaces \X KeyIdentifiers

ViewSet(icon, triple, value) ==
    CASE triple[1] = "source" -> sourceIconCacheSet(icon, CacheKey(triple[2], triple[3]), value)
      [] triple[1] = "skill" -> skillIconCacheSet(icon, CacheKey(triple[2], triple[3]), value)
      [] OTHER -> statusIconCacheSet(icon, CacheKey(triple[2], triple[3]), value)

ViewGet(icon, triple) ==
    CASE triple[1] = "source" -> sourceIconCacheGet(icon, CacheKey(triple[2], triple[3]))
      [] triple[1] = "skill" -> skillIconCacheGet(icon, CacheKey(triple[2], triple[3]))
      [] OTHER -> statusIconCacheGet(icon, CacheKey(triple[2], triple[3]))

InitKeys ==
    /\ iconCache = EmptyMap
    /\ logoUrlCache = EmptyMap
    /\ calls = [p \in Ids |-> IdleCall]
    /\ hook = Unmounted
    /\ logoHook = [input |-> "none", logoUrl |-> Null]
    /\ logoRequests = {}
    /\ last = 0
    /\ nullResolved = {}
    /\ probe \in {[fn |-> "views", arg |-> <<written, read>>, out |-> Undefined] :
                     written \in KeyTriples, read \in KeyTriples}
    /\ page = PageInitial

\* an icon is stored for probe.arg[1], then the entry of probe.arg[2] is read
SetThenGet ==
    /\ probe.fn = "views"
    /\ iconCache = EmptyMap
    /\ iconCache' = ViewSet(iconCache, probe.arg[1], <<"data:image/png;base64,", "x">>)
    /\ probe' = [probe EXCEPT !.out = ViewGet(iconCache', probe.arg[2])]
    /\ UNCHANGED <<logoUrlCache, calls, hook, logoHook, logoRequests, last, nullResolved,
                   page>>

SpecKeys == InitKeys /\ [][SetThenGet]_vars

\* isEmoji applied to a configured icon string
EmojiChars == {"fire", "man", "heart", "VS16", "ZWJ", "tone", "riU", "riS"}
MaxIconChars == 4
IconStrings == UNION {[1..n -> EmojiChars] : n \in 1..MaxIconChars}

InitEmoji ==
    /\ NothingLoaded
    /\ probe \in {[fn |-> "isEmoji", arg |-> str, out |-> Undefined] : str \in IconStrings}
    /\ page = PageInitial

TestEmoji ==
    /\ probe.fn = "isEmoji"
    /\ probe.out = Undefined
    /\ probe' = [probe EXCEPT !.out = IF isEmoji(probe.arg) THEN <<"true">> ELSE <<"false">>]
    /\ UNCHANGED <<iconCache, logoUrlCache, calls, hook, logoHook, logoRequests,
                   last, nullResolved, page>>

SpecEmoji == InitEmoji /\ [][TestEmoji]_vars

\* themeSvgContent applied to the content of an icon file: what precedes the root
\* tag, the root tag's name and attributes, what follows the root tag, the colour
SvgPrefixes == {<<>>, <<"<!--", "<svg", ">", "-->">>}
SvgRootAttrs ==
    {<<>>,
     <<" ", "fill", "=", "\"", "none", "\"">>,
     <<" ", "FILL", " ", "=", "\"", "currentColor", "\"">>,
     <<" ", "stroke", "=", "\"", "currentColor", "\"">>,
     <<" ", "title", "=", "\"", "a", ">", "b", "\"",
       " ", "fill", "=", "\"", "none", "\"">>}
SvgBodies ==
    {<<"<path", " ", "fill", "=", "\"", "currentColor", "\"", "/>", "</svg>">>,
     <<"<svg", ">", "<path", "/>", "</svg>", "</svg>">>}
SvgColors == {Undefined, <<"#ff0000">>}

SvgContent(arg) == arg[1] \o <<arg[2]>> \o arg[3] \o <<">">> \o arg[4]

InitSvg ==
    /\ NothingLoaded
    /\ probe \in {[fn |-> "themeSvgContent", arg |-> <<prefix, open, attrs, body, color>>,
                    out |-> Undefined] :
                     prefix \in SvgPrefixes, open \in SvgOpen, attrs \in SvgRootAttrs,
                     body \in SvgBodies, color \in SvgColors}
    /\ page = PageInitial

ThemeSvg ==
    /\ probe.fn = "themeSvgContent"
    /\ probe.out = Undefined
    /\ probe' = [probe EXCEPT !.out = themeSvgContent(SvgContent(probe.arg), probe.arg[5])]
    /\ UNCHANGED <<iconCache, logoUrlCache, calls, hook, logoHook, logoRequests,
                   last, nullResolved, page>>

SpecSvg == InitSvg /\ [][ThemeSvg]_vars

\* ------------------------------------------------------------------------
\* Properties
\* ------------------------------------------------------------------------
IsString(v) == v \notin {Null, Undefined, Thrown}

SourceCalls == {p \in Ids : calls[p].fn = "source"}

\* C1: loadSourceIcon never rejects: whatever the configuration and whether
\* readWorkspaceImage and getLogoUrl resolve or reject at each step, the promise
\* it returned, once settled, has resolved to a string or to null.
C1_NeverRejects ==
    \A p \in SourceCalls :
        /\ calls[p].pc # "rejected"
        /\ calls[p].pc = "resolved" => calls[p].result = Null \/ IsString(calls[p].result)

\* a call that went through every tier, saw getLogoUrl reject, and resolved to null
C1_Witness ==
    \E p \in SourceCalls :
        /\ calls[p].pc = "resolved"
        /\ calls[p].result = Null
        /\ Len(calls[p].trace) >= 3
        /\ calls[p].trace[Len(calls[p].trace)].tier = "logo"
        /\ calls[p].trace[Len(calls[p].trace)].out = Thrown
        /\ \A i \in 1..(Len(calls[p].trace) - 1) : calls[p].trace[i].out = Null

\* the step in which invocation p is issued, as a loadSourceIcon call
StartsSource(p) == calls[p].pc = "idle" /\ calls'[p].fn = "source"

\* the entry of iconCache that loadSourceIcon reads for the input of call c
CachedIn(icon, c) == MapGet(icon, SourcePrefix \o W \o Colon \o Source(c.input).config.slug)
CachedFor(c) == CachedIn(iconCache, c)

\* `last` was a loadSourceIcon call with the input of call c
FollowsSameCall(c) ==
    /\ last # 0
    /\ calls[last].fn = "source"
    /\ calls[last].input = c.input

\* C2 as stated: a loadSourceIcon call issued right after one with identical inputs
\* has settled (no clear in between) returns the identical result without a
\* collaborator call, whatever the first call's outcome was.
C2_Original ==
    [][\A p \in Ids :
         StartsSource(p) /\ FollowsSameCall(calls'[p])
         => /\ calls'[p].pc = "resolved"
            /\ calls'[p].result = calls[last].result
            /\ calls'[p].trace = <<>>]_vars

\* C2: a loadSourceIcon call issued right after one with identical inputs has
\* resolved to a non-empty string (no clear and no other settlement in between)
\* resolves to the identical string and issues no collaborator call.
C2_IdempotentAfterSuccess ==
    [][\A p \in Ids :
         StartsSource(p) /\ FollowsSameCall(calls'[p]) /\ Truthy(calls[last].result)
         => /\ calls'[p].pc = "resolved"
            /\ calls'[p].result = calls[last].result
            /\ calls'[p].trace = <<>>]_vars

\* the first call resolved through a collaborator, the second one repeated its result
C2_Witness ==
    /\ MaxCalls >= 2
    /\ calls[1].fn = "source" /\ calls[2].fn = "source"
    /\ calls[1].input = calls[2].input
    /\ calls[1].pc = "resolved" /\ calls[2].pc = "resolved"
    /\ calls[1].trace # <<>> /\ calls[2].trace = <<>>
    /\ Truthy(calls[1].result) /\ calls[2].result = calls[1].result
    /\ last = 2

\* C7: whenever iconCache holds a value under source:{workspaceId}:{slug}, a
\* loadSourceIcon call returns exactly that value, issues no collaborator call and
\* leaves both caches as they are, whatever the configuration passed says.
C7_CacheHitShortCircuits ==
    [][\A p \in Ids :
         StartsSource(p) /\ Truthy(CachedFor(calls'[p]))
         => /\ calls'[p].pc = "resolved"
            /\ calls'[p].result = CachedFor(calls'[p])
            /\ calls'[p].trace = <<>>
            /\ iconCache' = iconCache
            /\ logoUrlCache' = logoUrlCache]_vars

\* a call whose configuration names an emoji returned the image cached for the slug
C7_Witness ==
    \E p \in SourceCalls :
        /\ calls[p].input = "emoji"
        /\ calls[p].pc = "resolved"
        /\ calls[p].trace = <<>>
        /\ Truthy(calls[p].result)
        /\ ~StartsWith(calls[p].result, EMOJI_ICON_PREFIX)
        /\ CachedFor(calls[p]) = calls[p].result

EmojiMarked(icon) == <<"e", "m", "o", "j", "i", ":">> \o icon

SettlesSource(p) ==
    calls[p].fn = "source" /\ Suspended(calls[p]) /\ calls'[p].pc = "resolved"

\* C5 as stated: of two loadSourceIcon calls for one (workspaceId, slug) in flight
\* together both write the same value: a call that resolves to an icon when the
\* cache already holds one for its key resolves to that very value.
C5_Original ==
    [][\A p \in Ids :
         SettlesSource(p) /\ Truthy(calls'[p].result) /\ Truthy(CachedFor(calls[p]))
         => calls'[p].result = CachedFor(calls[p])]_vars

\* C5: loadSourceIcon calls for one (workspaceId, slug) in flight together are not
\* de-duplicated: a call issued on a cache miss for a non-emoji icon starts its own
\* chain with its own collaborator call even while another call for the key is
\* suspended, and each call that resolves to an icon stores its own result, so the
\* cache holds the result of whichever call completed last.
C5_LastWriterWins ==
    [][\A p \in Ids :
         /\ ( /\ StartsSource(p)
              /\ calls'[p].input # "emoji"
              /\ ~Truthy(CachedFor(calls'[p]))
              /\ \E q \in Ids : /\ calls[q].fn = "source"
                                /\ Suspended(calls[q])
                                /\ Source(calls[q].input).config.slug
                                     = Source(calls'[p].input).config.slug )
            => Suspended(calls'[p]) /\ Len(calls'[p].trace) = 1
         /\ SettlesSource(p) /\ Truthy(calls'[p].result)
            => CachedIn(iconCache', calls'[p]) = calls'[p].result]_vars

\* two calls for one key ran their own chains to different icons; the one issued
\* first completed last and its icon is the one cached
C5_Witness ==
    /\ MaxCalls >= 2
    /\ calls[1].fn = "source" /\ calls[2].fn = "source"
    /\ Source(calls[1].input).config.slug = Source(calls[2].input).config.slug
    /\ calls[1].pc = "resolved" /\ calls[2].pc = "resolved"
    /\ calls[1].trace # <<>> /\ calls[2].trace # <<>>
    /\ Truthy(calls[1].result) /\ Truthy(calls[2].result)
    /\ calls[1].result # calls[2].result
    /\ last = 1
    /\ CachedFor(calls[1]) = calls[1].result

\* the collaborator calls of one loadSourceIcon invocation, in priority order
ExpectedChain(source) ==
    (IF source.config.icon # Undefined /\ StartsWith(source.config.icon, <<".", "/">>)
     THEN <<[tier |-> "explicit",
             arg |-> <<source.workspaceId,
                       <<"s", "o", "u", "r", "c", "e", "s", "/">> \o source.config.slug
                         \o <<"/">> \o Tail(Tail(source.config.icon))>>]>>
     ELSE <<>>)
    \o <<[tier |-> "svg",
          arg |-> <<source.workspaceId,
                    <<"s", "o", "u", "r", "c", "e", "s", "/">> \o source.config.slug
                      \o <<"/", "icon", ".svg">>>>],
         [tier |-> "png",
          arg |-> <<source.workspaceId,
                    <<"s", "o", "u", "r", "c", "e", "s", "/">> \o source.config.slug
                      \o <<"/", "icon", ".png">>>>],
         [tier |-> "logo",
          arg |-> <<deriveServiceUrl(source.config),
                    Nullish(source.config.slug, source.config.provider)>>]>>

KeysOfType(icon, prefix) == {k \in DOMAIN icon : SubSeq(k, 1, Len(prefix)) = prefix}

\* the step removed every key under `prefix` and kept the entries under `others`
RemovesOnly(prefix, others) ==
    /\ KeysOfType(iconCache', prefix) = {}
    /\ \A o \in others :
         /\ KeysOfType(iconCache', o) = KeysOfType(iconCache, o)
         /\ \A k \in KeysOfType(iconCache, o) : iconCache'[k] = iconCache[k]

\* C10: clearSourceIconCaches, clearSkillIconCaches and clearStatusIconCaches each
\* remove every iconCache entry under their own type prefix and leave every entry
\* of the other two types present with its value unchanged.
C10_PrefixScopedInvalidation ==
    [][/\ clearSourceIconCaches
          => RemovesOnly(<<"s", "o", "u", "r", "c", "e", ":">>,
                         {<<"s", "k", "i", "l", "l", ":">>,
                          <<"s", "t", "a", "t", "u", "s", ":">>})
       /\ clearSkillIconCaches
          => RemovesOnly(<<"s", "k", "i", "l", "l", ":">>,
                         {<<"s", "o", "u", "r", "c", "e", ":">>,
                          <<"s", "t", "a", "t", "u", "s", ":">>})
       /\ clearStatusIconCaches
          => RemovesOnly(<<"s", "t", "a", "t", "u", "s", ":">>,
                         {<<"s", "o", "u", "r", "c", "e", ":">>,
                          <<"s", "k", "i", "l", "l", ":">>})]_vars

\* a skill icon was loaded and its entry is gone, beside a source and a status entry
C10_Witness ==
    /\ \E p \in Ids : /\ calls[p].fn = "skill"
                      /\ calls[p].pc = "resolved"
                      /\ Truthy(calls[p].result)
                      /\ calls[p].trace # <<>>
    /\ KeysOfType(iconCache, <<"s", "k", "i", "l", "l", ":">>) = {}
    /\ KeysOfType(iconCache, <<"s", "o", "u", "r", "c", "e", ":">>) # {}
    /\ KeysOfType(iconCache, <<"s", "t", "a", "t", "u", "s", ":">>) # {}

\* the step in which the then/catch callback of the hook's call p runs
HookDelivers(p) == ~calls[p].delivered /\ calls'[p].delivered

\* C6: when the source given to useSourceIcon changed, or the component unmounted,
\* while a loadSourceIcon call issued for the earlier source was in flight, the
\* callback that runs on that call's settlement leaves iconUrl and emojiIcon as
\* they are.
C6_StaleResponsesDiscarded ==
    [][\A p \in Ids :
         HookDelivers(p) /\ hook.current # p
         => /\ hook'.iconUrl = hook.iconUrl
            /\ hook'.emojiIcon = hook.emojiIcon]_vars

\* the call issued for an earlier source delivered an icon the hook does not show
C6_Witness ==
    \E p \in SourceCalls :
        /\ calls[p].owner = "hook"
        /\ calls[p].delivered
        /\ calls[p].pc = "resolved"
        /\ Truthy(calls[p].result)
        /\ hook.mounted
        /\ hook.source # calls[p].input
        /\ hook.current # p
        /\ hook.iconUrl # calls[p].result

\* the step in which call p, its icon.png load having failed, reaches the favicon tier
EntersFavicon(p) ==
    /\ calls[p].fn = "source"
    /\ calls[p].pc = "png"
    /\ calls'[p].pc # "png"
    /\ ~Truthy(calls'[p].trace[Len(calls[p].trace)].out)

\* C3 as stated: once getLogoUrl has resolved to null for a (serviceUrl, provider)
\* key and logoUrlCache has not been cleared, a loadSourceIcon call reaching the
\* favicon tier with that key returns null.
C3_Original ==
    [][\A p \in Ids :
         EntersFavicon(p) /\ SourceLogoKey(Source(calls[p].input)) \in nullResolved
         => calls'[p].pc = "resolved" /\ calls'[p].result = Null]_vars

\* C3: once getLogoUrl has resolved to null for a (serviceUrl, provider) key and
\* logoUrlCache has not been cleared, the key stays in logoUrlCache, and a
\* loadSourceIcon call reaching the favicon tier with that key issues no getLogoUrl
\* call and returns what logoUrlCache holds for the key at that moment.
C3_NegativeCache ==
    [][/\ \A k \in nullResolved : k \in DOMAIN logoUrlCache
       /\ \A p \in Ids :
            EntersFavicon(p) /\ SourceLogoKey(Source(calls[p].input)) \in nullResolved
            => /\ calls'[p].pc = "resolved"
               /\ calls'[p].result = logoUrlCache[SourceLogoKey(Source(calls[p].input))]
               /\ Len(calls'[p].trace) = Len(calls[p].trace)
               /\ logoUrlCache' = logoUrlCache]_vars

\* getLogoUrl resolved to null for the first call; the second call got as far as
\* the favicon tier and returned null without a getLogoUrl call of its own
C3_Witness ==
    /\ MaxCalls >= 2
    /\ calls[1].fn = "source" /\ calls[2].fn = "source"
    /\ calls[1].pc = "resolved" /\ calls[2].pc = "resolved"
    /\ calls[1].trace # <<>> /\ calls[2].trace # <<>>
    /\ calls[1].trace[Len(calls[1].trace)].tier = "logo"
    /\ calls[1].trace[Len(calls[1].trace)].out = Null
    /\ calls[2].trace[Len(calls[2].trace)].tier = "png"
    /\ calls[2].result = Null
    /\ last = 2
    /\ SourceLogoKey(Source(calls[2].input)) \in nullResolved
    /\ logoUrlCache[SourceLogoKey(Source(calls[2].input))] = Null

ChangedInPlace(old, new) == {k \in DOMAIN old \cap DOMAIN new : new[k] # old[k]}

\* C4 as stated: a value held by iconCache or logoUrlCache never changes, and a key
\* leaves a cache only when a clear operation empties it.
C4_Original ==
    [][/\ ChangedInPlace(iconCache, iconCache') = {}
       /\ ChangedInPlace(logoUrlCache, logoUrlCache') = {}
       /\ DOMAIN iconCache \subseteq DOMAIN iconCache' \/ iconCache' = EmptyMap
       /\ DOMAIN logoUrlCache \subseteq DOMAIN logoUrlCache' \/ logoUrlCache' = EmptyMap]_vars

\* C4: a value held by iconCache or logoUrlCache is replaced only by the result of a
\* resolution that was already past its own cache check, suspended on a
\* collaborator, when the value was stored: a loadSourceIcon or loadSkillIcon call
\* for iconCache, a loadSourceIcon call awaiting getLogoUrl or a useLogoUrl effect
\* for logoUrlCache. A key leaves a cache only when a clear operation empties it.
C4_ReplacedOnlyByRacers ==
    [][/\ \A k \in ChangedInPlace(iconCache, iconCache') :
            \E p \in Ids : /\ Suspended(calls[p])
                           /\ calls[p].raced
                           /\ calls'[p].pc = "resolved"
                           /\ IconKeyOf(calls[p]) = k
                           /\ calls'[p].result = iconCache'[k]
       /\ \A k \in ChangedInPlace(logoUrlCache, logoUrlCache') :
            \/ \E p \in Ids : /\ calls[p].pc = "logo"
                              /\ calls[p].raced
                              /\ calls'[p].pc = "resolved"
                              /\ SourceLogoKey(Source(calls[p].input)) = k
            \/ \E r \in logoRequests \ logoRequests' :
                              /\ r.raced
                              /\ ~r.cancelled
                              /\ LogoHookKey(r.input) = k
       /\ DOMAIN iconCache \subseteq DOMAIN iconCache' \/ iconCache' = EmptyMap
       /\ DOMAIN logoUrlCache \subseteq DOMAIN logoUrlCache' \/ logoUrlCache' = EmptyMap]_vars

\* getLogoUrl had resolved to null for a key, and logoUrlCache now holds a URL under
\* it: a resolution that was in flight replaced the null
C4_Witness ==
    \E k \in nullResolved :
        /\ k \in DOMAIN logoUrlCache
        /\ Truthy(logoUrlCache[k])

\* C11 as stated: apart from clearIconCaches, no clear operation both removes icon
\* entries and empties the logo-URL store.
C11_Original ==
    [][clearSourceIconCaches \/ clearSkillIconCaches \/ clearStatusIconCaches
       => ~ /\ DOMAIN iconCache' # DOMAIN iconCache
            /\ logoUrlCache # EmptyMap
            /\ logoUrlCache' = EmptyMap]_vars

\* C11: clearIconCaches empties iconCache and logoUrlCache; clearSourceIconCaches
\* removes the source entries of iconCache only, and empties logoUrlCache as well;
\* clearSkillIconCaches and clearStatusIconCaches leave logoUrlCache as it is.
C11_ClearScopes ==
    [][/\ clearIconCaches => iconCache' = EmptyMap /\ logoUrlCache' = EmptyMap
       /\ clearSourceIconCaches
          => /\ logoUrlCache' = EmptyMap
             /\ RemovesOnly(<<"s", "o", "u", "r", "c", "e", ":">>,
                            {<<"s", "k", "i", "l", "l", ":">>,
                             <<"s", "t", "a", "t", "u", "s", ":">>})
       /\ clearSkillIconCaches \/ clearStatusIconCaches
          => logoUrlCache' = logoUrlCache]_vars

\* a call got its icon from getLogoUrl, and afterwards the source entries and the
\* logo-URL store are gone while a skill entry is still there
C11_Witness ==
    /\ \E p \in SourceCalls :
         /\ calls[p].pc = "resolved"
         /\ Truthy(calls[p].result)
         /\ calls[p].trace # <<>>
         /\ calls[p].trace[Len(calls[p].trace)].tier = "logo"
    /\ logoUrlCache = EmptyMap
    /\ KeysOfType(iconCache, <<"s", "o", "u", "r", "c", "e", ":">>) = {}
    /\ KeysOfType(iconCache, <<"s", "k", "i", "l", "l", ":">>) # {}

\* C12: two different (type, workspace, identifier) triples never map to the same
\* iconCache key: after an icon is stored for one triple, a read for a different
\* triple finds nothing.
C12_KeysDoNotCollide ==
    iconCache # EmptyMap /\ probe.arg[1] # probe.arg[2] => probe.out = Undefined

\* the step in which invocation p is issued, as a loadSkillIcon call
StartsSkill(p) == calls[p].pc = "idle" /\ calls'[p].fn = "skill"

\* the step in which the readWorkspaceImage call of loadSkillIcon call p settles
SettlesSkill(p) == calls[p].fn = "skill" /\ calls[p].pc = "read" /\ calls'[p].pc = "resolved"

\* the entry of `icon` that loadSkillIcon reads for the input of call c
SkillCachedIn(icon, c) ==
    MapGet(icon, <<"s", "k", "i", "l", "l", ":">> \o W \o <<":">> \o Skill(c.input).slug)

CachesUnchanged == iconCache' = iconCache /\ logoUrlCache' = logoUrlCache

ReturnsNullUncached(c) == c.pc = "resolved" /\ c.result = Null /\ CachesUnchanged

\* C13 as stated: loadSkillIcon returns null and writes nothing when the icon path
\* is absent, when it does not match the pattern, or when readWorkspaceImage
\* rejects; a call right after such a failure with the same inputs invokes the
\* collaborator again; a successful read is stored under skill:{workspaceId}:{slug}
\* and returned.
C13_Original ==
    [][\A p \in Ids :
         /\ StartsSkill(p) /\ calls'[p].input \in {"nopath", "badpath"}
            => ReturnsNullUncached(calls'[p]) /\ calls'[p].trace = <<>>
         /\ SettlesSkill(p) /\ calls'[p].trace[1].out = Thrown
            => ReturnsNullUncached(calls'[p])
         /\ SettlesSkill(p) /\ calls'[p].trace[1].out # Thrown
            => /\ IsString(calls'[p].result)
               /\ SkillCachedIn(iconCache', calls'[p]) = calls'[p].result]_vars

\* C13: loadSkillIcon returns null and writes nothing when the icon path is absent,
\* when on a cache miss the path does not match the pattern, and when
\* readWorkspaceImage rejects or its SVG cannot be base64-encoded; with a path that
\* does not match and a value cached for the slug it returns the cached value; a
\* call that finds no entry for a matching path invokes readWorkspaceImage with
\* skills/{slug}/{remainder}, whatever failed before; a read that succeeds and
\* converts is stored under skill:{workspaceId}:{slug} and returned.
C13_SkillFailuresNotCached ==
    [][\A p \in Ids :
         /\ StartsSkill(p) /\ calls'[p].input = "nopath"
            => ReturnsNullUncached(calls'[p]) /\ calls'[p].trace = <<>>
         /\ StartsSkill(p) /\ calls'[p].input = "badpath"
            => /\ calls'[p].pc = "resolved"
               /\ calls'[p].trace = <<>>
               /\ CachesUnchanged
               /\ calls'[p].result = IF Truthy(SkillCachedIn(iconCache, calls'[p]))
                                     THEN SkillCachedIn(iconCache, calls'[p]) ELSE Null
         /\ StartsSkill(p) /\ calls'[p].input = "skill"
                           /\ ~Truthy(SkillCachedIn(iconCache, calls'[p]))
            => /\ calls'[p].pc = "read"
               /\ Len(calls'[p].trace) = 1
               /\ calls'[p].trace[1].arg =
                    <<W, <<"s", "k", "i", "l", "l", "s", "/", "k", "/", "icon", ".svg">>>>
               /\ CachesUnchanged
         /\ SettlesSkill(p) /\ calls'[p].trace[1].out = Thrown
            => ReturnsNullUncached(calls'[p])
         /\ SettlesSkill(p) /\ calls'[p].trace[1].out # Thrown
            => IF \E i \in 1..Len(calls'[p].trace[1].out) :
                     calls'[p].trace[1].out[i] = "\\u2713"
               THEN ReturnsNullUncached(calls'[p])
               ELSE /\ IsString(calls'[p].result)
                    /\ SkillCachedIn(iconCache', calls'[p]) = calls'[p].result
                    /\ logoUrlCache' = logoUrlCache]_vars

\* the read of the first call was rejected; the second call, with the same skill,
\* read again and its icon is cached
C13_Witness ==
    /\ MaxCalls >= 2
    /\ calls[1].fn = "skill" /\ calls[2].fn = "skill"
    /\ calls[1].input = "skill" /\ calls[2].input = "skill"
    /\ calls[1].pc = "resolved" /\ calls[1].result = Null
    /\ Len(calls[1].trace) = 1 /\ calls[1].trace[1].out = Thrown
    /\ calls[2].pc = "resolved" /\ Truthy(calls[2].result)
    /\ Len(calls[2].trace) = 1
    /\ last = 2
    /\ SkillCachedIn(iconCache, calls[2]) = calls[2].result

\* the step is a call of the synchronous getter fn
ReadsSync(fn) == probe' # probe /\ probe'.fn = fn

\* the value `icon` holds under prefix:{workspaceId}:{slug}, null when there is none
CachedUnder(icon, prefix, arg) ==
    LET key == prefix \o <<":">> \o arg[1] \o <<":">> \o arg[2]
    IN  IF key \in DOMAIN icon THEN icon[key] ELSE Null

\* C14: getSourceIconSync and getSkillIconSync return the value cached for
\* (workspaceId, slug) under their own type prefix, null when there is none, make no
\* collaborator call and leave iconCache and logoUrlCache as they were.
C14_SyncReadsArePure ==
    [][/\ ReadsSync("getSourceIconSync")
          => /\ probe'.out = CachedUnder(iconCache, <<"s", "o", "u", "r", "c", "e">>, probe'.arg)
             /\ CachesUnchanged /\ calls' = calls /\ logoRequests' = logoRequests
       /\ ReadsSync("getSkillIconSync")
          => /\ probe'.out = CachedUnder(iconCache, <<"s", "k", "i", "l", "l">>, probe'.arg)
             /\ CachesUnchanged /\ calls' = calls /\ logoRequests' = logoRequests]_vars

\* getSkillIconSync has returned the icon cached for a skill while an icon of a
\* source was cached too, none of them under the source key of the same pair
C14_Witness ==
    /\ probe.fn = "getSkillIconSync"
    /\ Truthy(probe.out)
    /\ probe.out = CachedUnder(iconCache, <<"s", "k", "i", "l", "l">>, probe.arg)
    /\ \E key \in DOMAIN iconCache : IsSourceKey(key)
    /\ CachedUnder(iconCache, <<"s", "o", "u", "r", "c", "e">>, probe.arg) = Null

\* the service URL of a source as the favicon tier is described to derive it
ServiceUrlOf(config) ==
    CASE config.type = "mcp" /\ IsString(config.mcpUrl) -> config.mcpUrl
      [] config.type = "api" /\ IsString(config.apiUrl) -> config.apiUrl
      [] OTHER -> Null

\* the latest collaborator call of invocation c
LastCall(c) == c.trace[Len(c.trace)]

\* C15: once the local tiers have failed, a source of type mcp goes on with mcp.url
\* and a source of type api with api.baseUrl as the service URL of the favicon tier;
\* a source of any other type, or without that URL, returns null with no getLogoUrl
\* call and no write to iconCache or logoUrlCache.
C15_ServiceUrlGatesFavicon ==
    [][\A p \in Ids :
         EntersFavicon(p) =>
           LET serviceUrl == ServiceUrlOf(Source(calls[p].input).config)
           IN  IF serviceUrl = Null
               THEN /\ ReturnsNullUncached(calls'[p])
                    /\ Len(calls'[p].trace) = Len(calls[p].trace)
               ELSE \/ /\ calls'[p].pc = "logo"
                       /\ Len(calls'[p].trace) = Len(calls[p].trace) + 1
                       /\ LastCall(calls'[p]).arg[1] = serviceUrl
                    \/ /\ calls'[p].pc = "resolved"
                       /\ Len(calls'[p].trace) = Len(calls[p].trace)
                       /\ \E k \in DOMAIN logoUrlCache :
                            /\ StartsWith(k, serviceUrl)
                            /\ calls'[p].result = logoUrlCache[k]]_vars

\* a source of type local that has an mcp url returned null after icon.png, the
\* caches still empty, and a source of type mcp is awaiting getLogoUrl for its url
C15_Witness ==
    /\ MaxCalls >= 2
    /\ calls[1].fn = "source" /\ calls[1].input = "other"
    /\ calls[1].pc = "resolved" /\ calls[1].result = Null
    /\ LastCall(calls[1]).tier = "png"
    /\ calls[2].fn = "source" /\ calls[2].input = "linear"
    /\ calls[2].pc = "logo"
    /\ LastCall(calls[2]).arg[1] = <<"https", ":", "//api.linear.app">>
    /\ iconCache = EmptyMap /\ logoUrlCache = EmptyMap

\* the logoUrlCache key of a source: its service URL, a colon, its slug
LogoKeyOf(source) ==
    ServiceUrlOf(source.config) \o <<":">> \o source.config.slug

\* the step in which the getLogoUrl call of loadSourceIcon call p settles
SettlesLogo(p) ==
    calls[p].fn = "source" /\ calls[p].pc = "logo" /\ calls'[p].pc # "logo"

\* loadSourceIcon call c ended on a rejection of getLogoUrl
EndedOnLogoRejection(c) ==
    /\ c.fn = "source" /\ c.pc = "resolved"
    /\ c.trace # <<>>
    /\ LastCall(c).tier = "logo" /\ LastCall(c).out = Thrown

\* C16: when getLogoUrl rejects, the loadSourceIcon call returns null, logoUrlCache
\* holds null under the (serviceUrl, provider) key, iconCache gets no entry; a key
\* leaves logoUrlCache only when a clear empties it, and a call that reaches the
\* favicon tier while its key is in logoUrlCache makes no getLogoUrl call: right
\* after the rejection it returns null.
C16_RejectionCachedAsNull ==
    [][/\ \A p \in Ids :
            SettlesLogo(p) /\ LastCall(calls'[p]).out = Thrown
            => LET key == LogoKeyOf(Source(calls[p].input))
               IN  /\ calls'[p].pc = "resolved"
                   /\ calls'[p].result = Null
                   /\ key \in DOMAIN logoUrlCache'
                   /\ logoUrlCache'[key] = Null
                   /\ \A k \in DOMAIN logoUrlCache \ {key} :
                        k \in DOMAIN logoUrlCache' /\ logoUrlCache'[k] = logoUrlCache[k]
                   /\ iconCache' = iconCache
       /\ \/ DOMAIN logoUrlCache \subseteq DOMAIN logoUrlCache'
          \/ logoUrlCache' = EmptyMap /\ calls' = calls
       /\ \A p \in Ids :
            EntersFavicon(p) /\ LogoKeyOf(Source(calls[p].input)) \in DOMAIN logoUrlCache
            => /\ calls'[p].pc = "resolved"
               /\ Len(calls'[p].trace) = Len(calls[p].trace)
       /\ \A p \in Ids :
            /\ EntersFavicon(p)
            /\ last \in Ids
            /\ EndedOnLogoRejection(calls[last])
            /\ calls[last].input = calls[p].input
            => calls'[p].result = Null /\ CachesUnchanged]_vars

\* getLogoUrl rejected for the first call; the second call, for the same source,
\* went through icon.svg and icon.png and returned null with no getLogoUrl call,
\* the key still null in logoUrlCache and nothing in iconCache
C16_Witness ==
    /\ MaxCalls >= 2
    /\ EndedOnLogoRejection(calls[1])
    /\ calls[1].result = Null
    /\ calls[2].fn = "source" /\ calls[2].input = calls[1].input
    /\ calls[2].pc = "resolved" /\ calls[2].result = Null
    /\ calls[2].trace # <<>> /\ LastCall(calls[2]).tier = "png"
    /\ last = 2
    /\ LogoKeyOf(Source(calls[1].input)) \in DOMAIN logoUrlCache
    /\ logoUrlCache[LogoKeyOf(Source(calls[1].input))] = Null
    /\ iconCache = EmptyMap

\* loadSourceIcon call c returned a URL that its favicon tier yielded, from
\* getLogoUrl or from logoUrlCache
YieldedFavicon(c) ==
    /\ c.fn = "source" /\ c.pc = "resolved"
    /\ Truthy(c.result)
    /\ c.trace # <<>>
    /\ \/ LastCall(c).tier = "logo"
       \/ LastCall(c).tier = "png" /\ ~Truthy(LastCall(c).out)

\* the step in which call p returns a URL out of the favicon tier
ReturnsFromFavicon(p) ==
    /\ SettlesLogo(p) \/ EntersFavicon(p)
    /\ calls'[p].pc = "resolved"
    /\ Truthy(calls'[p].result)

\* C17 as stated: a URL the favicon tier yields is stored under the source's
\* iconCache key, and every later loadSourceIcon call for that source returns at
\* the cache-hit step without a collaborator call.
C17_Original ==
    [][\A p \in Ids :
         /\ ReturnsFromFavicon(p) => CachedIn(iconCache', calls'[p]) = calls'[p].result
         /\ /\ StartsSource(p)
            /\ \E q \in Ids \ {p} : YieldedFavicon(calls[q]) /\ calls[q].input = calls'[p].input
            => /\ calls'[p].pc = "resolved"
               /\ calls'[p].trace = <<>>]_vars

\* C17: a URL the favicon tier yields (from getLogoUrl or from logoUrlCache) is
\* stored under the source's iconCache key; an entry under a source key leaves
\* iconCache only in a clear operation that removes every source entry and empties
\* logoUrlCache; while the entry is there, a loadSourceIcon call for that source
\* returns it at the cache-hit step without a collaborator call, as does the call
\* issued right after the one that stored it.
C17_FaviconFillsIconCache ==
    [][/\ \A p \in Ids :
            ReturnsFromFavicon(p) => CachedIn(iconCache', calls'[p]) = calls'[p].result
       /\ \/ \A k \in DOMAIN iconCache : IsSourceKey(k) => k \in DOMAIN iconCache'
          \/ /\ \A k \in DOMAIN iconCache' : ~IsSourceKey(k)
             /\ logoUrlCache' = EmptyMap
             /\ calls' = calls
       /\ \A p \in Ids :
            StartsSource(p) /\ Truthy(CachedIn(iconCache, calls'[p]))
            => /\ calls'[p].pc = "resolved"
               /\ calls'[p].trace = <<>>
               /\ calls'[p].result = CachedIn(iconCache, calls'[p])
       /\ \A p \in Ids :
            /\ StartsSource(p)
            /\ last \in Ids
            /\ YieldedFavicon(calls[last])
            /\ calls[last].input = calls'[p].input
            => /\ calls'[p].pc = "resolved"
               /\ calls'[p].trace = <<>>
               /\ calls'[p].result = calls[last].result]_vars

\* the first call got its URL from getLogoUrl after icon.svg and icon.png had
\* failed; the second call, for the same source, returned that URL at once
C17_Witness ==
    /\ MaxCalls >= 2
    /\ YieldedFavicon(calls[1])
    /\ LastCall(calls[1]).tier = "logo"
    /\ calls[2].fn = "source" /\ calls[2].input = calls[1].input
    /\ calls[2].pc = "resolved" /\ calls[2].trace = <<>>
    /\ calls[2].result = calls[1].result
    /\ last = 2
    /\ CachedFor(calls[2]) = calls[1].result

\* the step in which loadSourceIcon call p calls getLogoUrl
CallsGetLogoUrl(p) ==
    calls'[p].fn = "source" /\ calls[p].pc # "logo" /\ calls'[p].pc = "logo"

\* C20: in the favicon tier getLogoUrl is called with the service URL and the
\* source's slug (for the mcp source linear at https://api.linear.app, with
\* ("https://api.linear.app", "linear")); what it resolves to, URL or null, is
\* stored in logoUrlCache under the key built from that pair and returned.
C20_ResolverCalledWithUrlAndSlug ==
    [][\A p \in Ids :
         /\ CallsGetLogoUrl(p)
            => /\ LastCall(calls'[p]).arg =
                    <<ServiceUrlOf(Source(calls'[p].input).config),
                      Source(calls'[p].input).config.slug>>
               /\ calls'[p].input = "linear"
                  => LastCall(calls'[p]).arg =
                       <<<<"https", ":", "//api.linear.app">>, <<"linear">>>>
         /\ SettlesLogo(p) /\ LastCall(calls'[p]).out # Thrown
            => LET arg == LastCall(calls'[p]).arg
                   key == arg[1] \o <<":">> \o arg[2]
               IN  /\ calls'[p].pc = "resolved"
                   /\ calls'[p].result = LastCall(calls'[p]).out
                   /\ key \in DOMAIN logoUrlCache'
                   /\ logoUrlCache'[key] = LastCall(calls'[p]).out]_vars

\* getLogoUrl("https://api.linear.app", "linear") gave a URL, which was cached and
\* returned; for another source it gave null, which was cached and returned too
C20_Witness ==
    /\ MaxCalls >= 2
    /\ calls[1].fn = "source" /\ calls[1].input = "linear" /\ calls[1].pc = "resolved"
    /\ Len(calls[1].trace) = 3
    /\ LastCall(calls[1]).tier = "logo"
    /\ LastCall(calls[1]).arg = <<<<"https", ":", "//api.linear.app">>, <<"linear">>>>
    /\ Truthy(calls[1].result)
    /\ MapGet(logoUrlCache, <<"https", ":", "//api.linear.app", ":", "linear">>) = calls[1].result
    /\ calls[2].fn = "source" /\ calls[2].input = "api" /\ calls[2].pc = "resolved"
    /\ LastCall(calls[2]).tier = "logo"
    /\ LastCall(calls[2]).out = Null
    /\ calls[2].result = Null
    /\ MapGet(logoUrlCache, LogoKeyOf(Source("api"))) = Null

\* the step in which the cleanup of the effect that issued call p runs
Cancels(p) == ~calls[p].cancelled /\ calls'[p].cancelled

\* C18: the cleanup of useSourceIcon (unmount, or a change of source) leaves the
\* loadSourceIcon call it had issued where it was and both caches as they were; the
\* call's collaborator can still settle; and when the call then returns an icon, the
\* icon is in iconCache under the source's key.
C18_NoCancellationInCache ==
    /\ [](\A p \in Ids : calls[p].cancelled /\ Suspended(calls[p])
                           => ENABLED (SettleRead(p) \/ SettleLogo(p)))
    /\ [][\A p \in Ids :
            /\ Cancels(p)
               => /\ calls'[p] = [calls[p] EXCEPT !.cancelled = TRUE]
                  /\ \A k \in DOMAIN iconCache :
                       k \in DOMAIN iconCache' /\ iconCache'[k] = iconCache[k]
            /\ SettlesSource(p) /\ calls[p].cancelled /\ Truthy(calls'[p].result)
               => /\ CachedIn(iconCache', calls'[p]) = calls'[p].result
                  /\ calls'[p].cancelled]_vars

\* the avatar was unmounted while its call was awaiting a collaborator; the call
\* went on, returned an icon, and the icon is cached though no hook shows it
C18_Witness ==
    \E p \in SourceCalls :
        /\ calls[p].owner = "hook"
        /\ calls[p].cancelled
        /\ calls[p].pc = "resolved"
        /\ calls[p].trace # <<>>
        /\ Truthy(calls[p].result)
        /\ CachedFor(calls[p]) = calls[p].result
        /\ ~hook.mounted
        /\ hook.iconUrl = Null

\* call q is awaiting a collaborator that has not settled
Hung(q) == calls[q].pc \in {"explicit", "svg", "png", "logo", "read"}

\* C19: while a loadSourceIcon or loadSkillIcon call is suspended on a collaborator
\* that does not settle, clearIconCaches and the synchronous reads can run, the
\* next resolution can be issued, every other suspended call can be settled, and
\* the suspended call itself moves only when its own collaborator call settles.
C19_HungCallStallsOnlyItsCallers ==
    /\ [](\A q \in Ids :
            Hung(q) =>
              /\ ENABLED clearIconCaches
              /\ \A slug \in ReadSlugs :
                   /\ ENABLED ReadSourceSync(W, slug)
                   /\ ENABLED ReadSkillSync(W, slug)
              /\ \A p \in Ids \ {q} :
                   /\ calls[p].pc = "idle" /\ (\A r \in Ids : r < p => calls[r].pc # "idle")
                      => /\ ENABLED StartSource(p, "emoji")
                         /\ ENABLED StartSource(p, "api")
                         /\ ENABLED StartSkill(p, "skill")
                   /\ Hung(p)
                      => ENABLED (SettleRead(p) \/ SettleLogo(p) \/ SettleSkillRead(p)))
    /\ [][\A q \in Ids :
            Hung(q) /\ calls'[q].pc # calls[q].pc
            => /\ calls[q].trace[Len(calls[q].trace)].out = Undefined
               /\ calls'[q].trace[Len(calls[q].trace)].out # Undefined]_vars

\* the first call is still awaiting its collaborator; the second one, issued after
\* it for another key, went through a collaborator of its own and its icon is
\* cached, and a synchronous read has returned that icon meanwhile
C19_Witness ==
    /\ MaxCalls >= 2
    /\ Hung(1)
    /\ calls[1].trace[Len(calls[1].trace)].out = Undefined
    /\ calls[2].pc = "resolved"
    /\ calls[2].trace # <<>>
    /\ Truthy(calls[2].result)
    /\ calls[2].fn # calls[1].fn
    /\ last = 2
    /\ probe.fn = "getSkillIconSync"
    /\ probe.out = calls[2].result

\* C21: a loadSourceIcon call for a source whose config.icon is a URL resolves to
\* that URL, here in the case most favourable to the code: the cache had no entry
\* and no local icon file was found, so nothing else could stand in for the URL.
C21_UrlIconUsedDirectly ==
    \A p \in Ids :
        /\ calls[p].fn = "source"
        /\ calls[p].pc = "resolved"
        /\ IsString(Source(calls[p].input).config.icon)
        /\ StartsWith(Source(calls[p].input).config.icon, <<"https", ":">>)
        /\ calls[p].trace # <<>>
        /\ \A i \in 1..Len(calls[p].trace) :
             calls[p].trace[i].tier \in {"svg", "png"} /\ ~Truthy(calls[p].trace[i].out)
        => calls[p].result = Source(calls[p].input).config.icon

\* one element of an emoji sequence at the head of str, by the Unicode emoji
\* definitions: an emoji character with emoji presentation, an emoji character
\* followed by VS16, or a modifier base followed by a skin tone modifier; the
\* number of characters it takes, 0 when there is none
EmojiElement(str) ==
    IF Len(str) >= 2 /\ str[1] = "man" /\ str[2] = "tone" THEN 2
    ELSE IF Len(str) >= 2 /\ str[1] \in {"fire", "man", "heart"} /\ str[2] = "VS16" THEN 2
    ELSE IF str # <<>> /\ str[1] \in {"fire", "man"} THEN 1
    ELSE 0

RECURSIVE IsZwjSequence(_)
IsZwjSequence(str) ==
    /\ EmojiElement(str) > 0
    /\ LET rest == SubSeq(str, EmojiElement(str) + 1, Len(str))
       IN  \/ rest = <<>>
           \/ Head(rest) = "ZWJ" /\ IsZwjSequence(Tail(rest))

\* a single emoji grapheme cluster: an element, elements joined by ZWJ, or a flag
IsEmojiCluster(str) ==
    \/ IsZwjSequence(str)
    \/ Len(str) = 2 /\ str[1] \in {"riU", "riS"} /\ str[2] \in {"riU", "riS"}

\* C22: isEmoji accepts every single emoji grapheme cluster of at most 8 UTF-16
\* code units, ZWJ sequences, skin-tone-modified emoji and flags included.
C22_AcceptsEveryEmojiCluster ==
    /\ probe.fn = "isEmoji"
    /\ probe.out # Undefined
    /\ IsEmojiCluster(probe.arg)
    /\ JsLength(probe.arg) <= 8
    => probe.out = <<"true">>

\* themeSvgContent has been applied to probe.arg
Themed == probe.fn = "themeSvgContent" /\ probe.out # Undefined

\* the colour themeSvgContent works with
ThemeColor == IF probe.arg[5] = Undefined THEN <<"#e3e2e5">> ELSE probe.arg[5]

\* str with every currentColor token replaced by the colour
RECURSIVE Recoloured(_)
Recoloured(str) ==
    IF str = <<>> THEN <<>>
    ELSE (IF Head(str) \in {"currentColor", "currentcolor", "CURRENTCOLOR"}
          THEN ThemeColor ELSE <<Head(str)>>) \o Recoloured(Tail(str))

\* the attributes of a root tag hold a fill attribute
RootHasFill(attrs) == \E i \in 1..Len(attrs) : attrs[i] \in {"fill", "FILL"}

\* C23: when the root <svg> tag of the input has a fill attribute, the root tag of
\* the output and all that follows it are those of the input, apart from replaced
\* currentColor tokens.
C23_RootWithFillUntouched ==
    Themed /\ RootHasFill(probe.arg[3])
    => EndsWith(probe.out,
                <<probe.arg[2]>> \o Recoloured(probe.arg[3]) \o <<">">>
                  \o Recoloured(probe.arg[4]))

\* C24 as stated: theming <svg><path fill="currentColor"/></svg> with #ff0000
\* yields <svg><path fill="#ff0000"/></svg>.
C24_Original ==
    /\ Themed
    /\ SvgContent(probe.arg) =
         <<"<svg", ">", "<path", " ", "fill", "=", "\"", "currentColor", "\"", "/>", "</svg>">>
    /\ probe.arg[5] = <<"#ff0000">>
    => probe.out =
         <<"<svg", ">", "<path", " ", "fill", "=", "\"", "#ff0000", "\"", "/>", "</svg>">>

\* C24: theming <svg><path fill="currentColor"/></svg> with #ff0000 yields
\* <svg fill="#ff0000"><path fill="#ff0000"/></svg>; in general, with nothing before
\* the root tag and no fill attribute and no ">" among its attributes, the output
\* is the input with its currentColor tokens replaced and fill="{colour}" added at
\* the end of the root tag, written <svg.
C24_ThemedExample ==
    /\ /\ Themed
       /\ SvgContent(probe.arg) =
            <<"<svg", ">", "<path", " ", "fill", "=", "\"", "currentColor", "\"", "/>", "</svg>">>
       /\ probe.arg[5] = <<"#ff0000">>
       => probe.out =
            <<"<svg", " ", "fill", "=", "\"", "#ff0000", "\"", ">",
              "<path", " ", "fill", "=", "\"", "#ff0000", "\"", "/>", "</svg>">>
    /\ /\ Themed
       /\ probe.arg[1] = <<>>
       /\ ~RootHasFill(probe.arg[3])
       => probe.out =
            <<"<svg">> \o Recoloured(probe.arg[3])
              \o <<" ", "fill", "=", "\"">> \o ThemeColor \o <<"\"", ">">>
              \o Recoloured(probe.arg[4])

\* the example has been themed with #ff0000
C24_Witness ==
    /\ Themed
    /\ SvgContent(probe.arg) =
         <<"<svg", ">", "<path", " ", "fill", "=", "\"", "currentColor", "\"", "/>", "</svg>">>
    /\ probe.arg[5] = <<"#ff0000">>
    /\ Len(probe.out) = 17

\* the step in which useSourceIcon mounts or is given another source
RendersHook == hook'.mounted /\ (~hook.mounted \/ hook'.source # hook.source)

\* the calls issued in this step
Issued == {p \in Ids : calls[p].pc = "idle" /\ calls'[p].pc # "idle"}

\* what iconCache holds for the source the hook is given in this step
CachedForHook == CachedIn(iconCache, [input |-> hook'.source])

\* C25: when useSourceIcon mounts or is given another source and iconCache holds a
\* value for that source, the hook shows that value (as emoji when it carries the
\* emoji marker, as URL otherwise) and no loadSourceIcon call is issued; when the
\* cache holds nothing for it, exactly one loadSourceIcon call is issued, for that
\* source; without a source none is issued.
C25_PaintsFromCache ==
    [][RendersHook =>
         IF hook'.source = "undefined"
         THEN Issued = {} /\ CachesUnchanged
         ELSE IF Truthy(CachedForHook)
         THEN /\ Issued = {}
              /\ CachesUnchanged
              /\ hook'.current = 0
              /\ IF StartsWith(CachedForHook, <<"e", "m", "o", "j", "i", ":">>)
                 THEN /\ hook'.emojiIcon = SubSeq(CachedForHook, 7, Len(CachedForHook))
                      /\ hook'.iconUrl = Null
                 ELSE /\ hook'.iconUrl = CachedForHook
                      /\ hook'.emojiIcon = Null
         ELSE /\ Cardinality(Issued) = 1
              /\ \A p \in Issued : /\ calls'[p].fn = "source"
                                   /\ calls'[p].input = hook'.source
                                   /\ calls'[p].owner = "hook"
                                   /\ hook'.current = p]_vars

\* the hook shows a URL that it took from the cache: the effect that ran last
\* issued no call, and a call made earlier had fetched the URL
C25_Witness ==
    /\ hook.mounted
    /\ hook.source = "api"
    /\ hook.current = 0
    /\ Truthy(hook.iconUrl)
    /\ hook.iconUrl = CachedIn(iconCache, [input |-> hook.source])
    /\ \E p \in SourceCalls : calls[p].input = "api" /\ calls[p].result = hook.iconUrl

\* str holds the emoji marker prefix somewhere
HoldsEmojiPrefix(str) ==
    \E i \in 1..Len(str) :
        i + 5 <= Len(str) /\ SubSeq(str, i, i + 5) = <<"e", "m", "o", "j", "i", ":">>

\* C26: in every state of useSourceIcon at most one of iconUrl and emojiIcon is
\* non-null, iconUrl does not start with the emoji marker prefix, and emojiIcon
\* does not hold the prefix.
C26_UrlAndEmojiExclusive ==
    /\ hook.iconUrl = Null \/ hook.emojiIcon = Null
    /\ ~HoldsEmojiPrefix(hook.iconUrl)
    /\ ~HoldsEmojiPrefix(hook.emojiIcon)

\* the hook shows the emoji of its source and no URL, the URL that was resolved
\* for the source it had before being cached
C26_Witness ==
    /\ hook.mounted
    /\ hook.source = "emoji"
    /\ hook.emojiIcon = <<"fire">>
    /\ hook.iconUrl = Null
    /\ \E p \in SourceCalls :
         /\ calls[p].input = "api"
         /\ calls[p].owner = "hook"
         /\ calls[p].delivered
         /\ Truthy(calls[p].result)

\* C27: clearSourceIconCache of the avatar module leaves every skill: and status:
\* entry of iconCache in place, with its value.
C27_AvatarClearKeepsOtherTypes ==
    [][clearSourceIconCache
       => \A k \in DOMAIN iconCache :
            \/ StartsWith(k, <<"s", "k", "i", "l", "l", ":">>)
            \/ StartsWith(k, <<"s", "t", "a", "t", "u", "s", ":">>)
            => k \in DOMAIN iconCache' /\ iconCache'[k] = iconCache[k]]_vars

\* the five fields of the OAuth dialog as handleCancelOAuth leaves them
DialogReset(pg) ==
    /\ pg.isWaitingForCode = FALSE
    /\ pg.authCode = <<>>
    /\ pg.claudeOAuthStatus = "idle"
    /\ pg.claudeOAuthError = Undefined
    /\ pg.expandedMethod = Null

DialogFields(pg) ==
    <<pg.isWaitingForCode, pg.authCode, pg.claudeOAuthStatus, pg.claudeOAuthError,
      pg.expandedMethod>>

\* C28: when handleCancelOAuth issues clearClaudeOAuthState the five dialog
\* fields are already reset; the step in which that call resolves or rejects
\* changes none of them; and the promise of the handler is never rejected
C28_CancelResetsBeforeBackend ==
    /\ [](page.cancel # "rejected")
    /\ [][/\ (page.cancel # "pending" /\ page'.cancel = "pending") => DialogReset(page')
          /\ (page.cancel = "pending" /\ page'.cancel # "pending")
                 => DialogFields(page') = DialogFields(page)]_vars

\* C28 witness: clearClaudeOAuthState rejected, the handler has returned and
\* the dialog is still reset
C28_Witness ==
    /\ page.cancel = "resolved"
    /\ page.cleared = "no"
    /\ DialogReset(page)

\* doSave called updateBillingMethod in this step; the save it started is the
\* last of page'.saves
IssuesSave == Len(page'.saves) > Len(page.saves)
IssuedSave == page'.saves[Len(page'.saves)]

\* a save resolved in this step and lastSavedRef holds its currentConfig
SaveSucceeds ==
    \E i \in 1..Len(page.saves) :
        /\ page'.saves = RemoveAt(page.saves, i)
        /\ page'.lastSavedRef = page.saves[i].config

\* doSave calls updateBillingMethod only from a closure whose authType is
\* 'api_key' and whose serialized values differ from lastSavedRef
SavesOnlyChangedApiKeyConfig ==
    IssuesSave => /\ IssuedSave.authType = "api_key"
                  /\ IssuedSave.config # page.lastSavedRef

\* while the initial-load flag is set no step calls updateBillingMethod
NoSaveDuringInitialLoad == page.isInitialLoadRef => ~IssuesSave

\* C29 as stated: the guards of doSave hold, lastSavedRef changes only in a
\* step in which a save resolved, and no save starts or is scheduled while the
\* initial-load flag is set
C29_Original ==
    /\ [](page.isInitialLoadRef => page.timers = {})
    /\ [][/\ SavesOnlyChangedApiKeyConfig
          /\ NoSaveDuringInitialLoad
          /\ page'.lastSavedRef # page.lastSavedRef => SaveSucceeds]_vars

\* C29 amended: the guards of doSave hold and no save starts or is scheduled
\* while the initial-load flag is set; lastSavedRef changes either in a step in
\* which a save resolved, or, while the initial-load flag is set and authType
\* is 'api_key', to the serialized form values of the render
C29_AutoSaveGuards ==
    /\ [](page.isInitialLoadRef => page.timers = {})
    /\ [][/\ SavesOnlyChangedApiKeyConfig
          /\ NoSaveDuringInitialLoad
          /\ page'.lastSavedRef # page.lastSavedRef =>
                 \/ SaveSucceeds
                 \/ /\ page.isInitialLoadRef
                    /\ page'.authType = "api_key"
                    /\ page'.lastSavedRef =
                           SerializeConfig(page'.apiKeyValue, page'.baseUrlValue)]_vars

\* C29 witness: after the initial load doSave has a save in flight for values
\* that differ from lastSavedRef, which no longer holds the initial values
C29_Witness ==
    /\ ~page.isInitialLoadRef
    /\ Len(page.saves) > 0
    /\ page.saves[1].config # page.lastSavedRef
    /\ page.lastSavedRef # SerializeConfig(<<>>, <<>>)

\* at most one debounce timer is pending; it is the one debounceRef holds and
\* its doSave closes over the form values of the latest render
OneCurrentTimer ==
    /\ Cardinality(page.timers) <= 1
    /\ \A t \in page.timers :
           /\ t.id = page.debounceRef
           /\ t.authType = page.authType
           /\ t.apiKey = page.apiKeyValue
           /\ t.baseUrl = page.baseUrlValue

\* a change of the form values cancels the timers that were pending, and
\* schedules a new one unless the initial-load flag is set
ChangeReschedules ==
    <<page'.apiKeyValue, page'.baseUrlValue>> # <<page.apiKeyValue, page.baseUrlValue>> =>
        /\ page'.timers \cap page.timers = {}
        /\ (page'.authType = "api_key" /\ ~page'.isInitialLoadRef) => page'.timers # {}

AutoSaveQuiet ==
    /\ page.authType = "api_key"
    /\ page.load # "pending"
    /\ page.switch # "pending"
    /\ ~page.isInitialLoadRef
    /\ page.timers = {}
    /\ page.saves = <<>>
    /\ ~page.rejected

\* C31: once editing has stopped and every updateBillingMethod call of doSave
\* has resolved, lastSavedRef is the serialization of the current form values
C31_LastSavedIsCurrent ==
    AutoSaveQuiet =>
        page.lastSavedRef = SerializeConfig(page.apiKeyValue, page.baseUrlValue)

\* handleSubmitAuthCode ended in this step the way a successful exchange ends
SubmitSucceeded ==
    /\ page.submit = "update"
    /\ page'.authType = "oauth_token"
    /\ page'.hasCredential
    /\ page'.claudeOAuthStatus = "success"
    /\ ~page'.isWaitingForCode
    /\ page'.authCode = <<>>
    /\ page'.expandedMethod = Null

\* handleSubmitAuthCode ended in this step the way a failure ends
SubmitErrored ==
    /\ page'.claudeOAuthStatus = "error"
    /\ Truthy(page'.claudeOAuthError)
    /\ page'.authType = page.authType
    /\ page'.hasCredential = page.hasCredential
    /\ page'.isWaitingForCode = page.isWaitingForCode

\* C32: handleSubmitAuthCode calls exchangeClaudeCode only with a trimmed,
\* non-empty code; while it waits for updateBillingMethod it has changed
\* nothing; it ends either with the credential recorded (authType
\* 'oauth_token', hasCredential, status 'success', dialog closed and emptied),
\* which needs the exchange to have succeeded and updateBillingMethod to have
\* settled, or with status 'error', a message, and authType, hasCredential and
\* isWaitingForCode as they were; nothing else makes authType 'oauth_token'
C32_SubmitChangesBillingOnlyOnSuccess ==
    [][/\ (page.submit = "none" /\ page'.submit = "exchange")
              => page'.code = Trim(page.authCode) /\ page'.code # <<>>
       /\ (page.submit = "exchange" /\ page'.submit = "update")
              => ReactState(page') = ReactState(page)
       /\ (page.submit # "none" /\ page'.submit = "none")
              => SubmitSucceeded \/ SubmitErrored
       /\ (page.authType # "oauth_token" /\ page'.authType = "oauth_token")
              => SubmitSucceeded]_vars

\* C32 witness: the exchange was refused with a message; the dialog still
\* waits for a code and the billing state is untouched
C32_Witness ==
    /\ page.submit = "none"
    /\ page.claudeOAuthStatus = "error"
    /\ page.claudeOAuthError = <<"bad code">>
    /\ page.isWaitingForCode
    /\ page.authType = "api_key"
    /\ ~page.hasCredential

\* the fields C33 is about
BillingAndFlow(pg) ==
    <<pg.isWaitingForCode, pg.claudeOAuthStatus, pg.authType, pg.hasCredential>>

\* C33: when a startClaudeOAuth call, or the exchangeClaudeCode /
\* updateBillingMethod calls of a submit, settle after handleCancelOAuth ran
\* over them, isWaitingForCode, claudeOAuthStatus, authType and hasCredential
\* stay as they were
C33_CancelWinsOverInFlight ==
    [][/\ ("start" \in page.overtaken /\ page.start = "pending" /\ page'.start = "none")
              => BillingAndFlow(page') = BillingAndFlow(page)
       /\ ("submit" \in page.overtaken /\ page.submit # "none" /\ page'.submit = "none")
              => BillingAndFlow(page') = BillingAndFlow(page)]_vars

\* C34: when getLogoUrl settles for a useLogoUrl effect that was cleaned up
\* (serviceUrl or provider changed since), neither logoUrlCache nor the hook's
\* state changes; when it settles for the live effect, the result (null for a
\* rejection) is in logoUrlCache under `${serviceUrl}:${provider}` and is the
\* hook's logoUrl
C34_CancelledLogoResolutionDiscarded ==
    [][\A r \in logoRequests :
           LogoHookSettle(r) =>
               IF r.cancelled
               THEN logoUrlCache' = logoUrlCache /\ logoHook' = logoHook
               ELSE /\ r.input = logoHook.input
                    /\ MapGet(logoUrlCache', LogoHookKey(r.input)) \in {Null} \cup LogoUrls
                    /\ logoHook'.logoUrl = MapGet(logoUrlCache', LogoHookKey(r.input))]_vars

\* C34 witness: every getLogoUrl call of the hook has settled, the props were
\* changed and changed back meanwhile, and the hook shows the null that the
\* live call left in logoUrlCache
C34_Witness ==
    /\ logoHook = [input |-> "u", logoUrl |-> Null]
    /\ MapGet(logoUrlCache, LogoHookKey("u")) = Null
    /\ logoRequests = {}

\* clearIconCaches has run and no invocation was issued after it
NothingIssuedSinceClear == probe.fn = "clearIconCaches" /\ probe.arg = <<IssuedCount>>

\* C35: clearIconCaches leaves every invocation as it was, suspended ones at
\* the collaborator call they wait for; and an invocation that resolves to a
\* usable icon while nothing was issued since the clear leaves that icon in
\* iconCache under its key
C35_ClearDoesNotCancel ==
    [][/\ (probe' # probe) => calls' = calls
       /\ \A p \in Ids :
              (/\ NothingIssuedSinceClear
               /\ Suspended(calls[p])
               /\ calls'[p].pc = "resolved"
               /\ Truthy(calls'[p].result))
                  => MapGet(iconCache', IconKeyOf(calls[p])) = calls'[p].result]_vars

\* C35 witness: after clearIconCaches, with nothing issued since, both caches
\* hold entries again
C35_Witness ==
    /\ NothingIssuedSinceClear
    /\ iconCache # EmptyMap
    /\ logoUrlCache # EmptyMap

\* the source prop of a mounted avatar changes in this step
SourceChanges == hook.mounted /\ hook'.mounted /\ hook'.source # hook.source

\* what the cache holds for the source the avatar changes to
CachedForNext ==
    getSourceIconSync(iconCache, Source(hook'.source).workspaceId,
                      Source(hook'.source).config.slug)

\* C36: when the source of a mounted avatar changes to undefined, iconUrl and
\* emojiIcon both become null in that step; when it changes to a source with
\* no cached icon both stay what they were, and from then on they change only
\* when the source changes again, the avatar unmounts, or the resolution the
\* last effect issued is delivered to the hook
C36_KeepsPreviousIconUntilSettled ==
    [][/\ (SourceChanges /\ hook'.source = "undefined")
              => hook'.iconUrl = Null /\ hook'.emojiIcon = Null
       /\ (SourceChanges /\ hook'.source # "undefined" /\ ~Truthy(CachedForNext))
              => /\ hook'.iconUrl = hook.iconUrl
                 /\ hook'.emojiIcon = hook.emojiIcon
                 /\ hook'.current # 0
       /\ (/\ hook.mounted /\ hook'.mounted /\ hook'.source = hook.source
           /\ <<hook'.iconUrl, hook'.emojiIcon>> # <<hook.iconUrl, hook.emojiIcon>>)
              => /\ hook.current # 0
                 /\ HookDelivers(hook.current)
                 /\ ~calls[hook.current].cancelled]_vars

\* C36 witness: the avatar was given another source, the resolution for it has
\* not been delivered, and the avatar still holds the previous source's emoji
C36_Witness ==
    /\ hook.mounted
    /\ hook.source = "api"
    /\ hook.current # 0
    /\ ~calls[hook.current].delivered
    /\ hook.emojiIcon # Null

\* how many readWorkspaceImage / getLogoUrl calls an invocation has issued
ReadCalls(call) ==
    Cardinality({i \in 1..Len(call.trace) : call.trace[i].tier \in {"explicit", "svg", "png"}})

LogoCalls(call) ==
    Cardinality({i \in 1..Len(call.trace) : call.trace[i].tier = "logo"})

\* C37: a loadSourceIcon invocation issues at most three readWorkspaceImage
\* calls and at most one getLogoUrl call, and, the collaborator calls it waits
\* for settling in the end, every invocation that was issued settles
C37_BoundedWork ==
    /\ [](\A p \in Ids : calls[p].fn = "source"
              => ReadCalls(calls[p]) <= 3 /\ LogoCalls(calls[p]) <= 1)
    /\ \A p \in Ids : (calls[p].pc # "idle") ~> Settledp(p)

\* C37 witness: an invocation has settled after three readWorkspaceImage calls
\* and one getLogoUrl call
C37_Witness ==
    \E p \in Ids : /\ Settledp(p)
                   /\ ReadCalls(calls[p]) = 3
                   /\ LogoCalls(calls[p]) = 1

\* invocation p of loadSourceIcon runs in this step, from its call or from a
\* suspension point to the next one or to its return
SourceRuns(p) == calls'[p].fn = "source" /\ calls'[p].pc # calls[p].pc

\* the entries of a cache other than the one under key k are as they were
OthersUnchanged(old, new, k) ==
    \A x \in (DOMAIN old \cup DOMAIN new) \ {k} :
        x \in DOMAIN old /\ x \in DOMAIN new /\ new[x] = old[x]

\* C38: a step of a loadSourceIcon invocation leaves every iconCache entry but
\* the one under source:{workspaceId}:{slug} of its source as it was, and every
\* logoUrlCache entry but the one under {serviceUrl}:{slug} of its source; what
\* it stores in iconCache is a non-empty string
C38_WritesOwnKeysOnly ==
    [][\A p \in Ids : SourceRuns(p) =>
          LET source == Source(calls'[p].input)
              key == SourceKey(SourceCacheKey(source))
          IN  /\ OthersUnchanged(iconCache, iconCache', key)
              /\ OthersUnchanged(logoUrlCache, logoUrlCache', SourceLogoKey(source))
              /\ Stored(iconCache, iconCache', key)
                    => Truthy(iconCache'[key])]_vars

\* C38 witness: the invocation that settled last stored its icon and its logo
\* URL, next to an entry under another key in each of the two caches
C38_Witness ==
    /\ last # 0
    /\ calls[last].fn = "source"
    /\ calls[last].pc = "resolved"
    /\ Truthy(calls[last].result)
    /\ MapGet(iconCache, IconKeyOf(calls[last])) = calls[last].result
    /\ MapGet(logoUrlCache, SourceLogoKey(Source(calls[last].input))) = calls[last].result
    /\ DOMAIN iconCache # {IconKeyOf(calls[last])}

\* ------------------------------------------------------------------------
\* CredentialsStep (onboarding)
\* ------------------------------------------------------------------------
\* The props of the component. Optional props that were not passed are
\* "undefined"; the token is a string, null or not passed.
CredentialStatus == {"idle", "validating", "success", "error"}

CredentialsProps ==
    [apiSetupMethod : {"api_key", "claude_oauth"},
     status : CredentialStatus,
     errorMessage : {Undefined, <<"e">>},
     existingClaudeToken : {Undefined, Null, <<>>, <<"t">>},
     isWaitingForCode : {"undefined", "false", "true"}]

\* the actions of a StepFormLayout: the props given to BackButton and to
\* ContinueButton, and the control rendered as the layout's child
Layout(title, back, continue, child) ==
    [title |-> title, back |-> back, continue |-> continue, child |-> child]

\* the authorization-code view, its Cancel button left enabled
WaitingForCodeViewCancelEnabled(props) ==
    Layout("Enter Authorization Code",
           [onClick |-> "onCancelOAuth", disabled |-> FALSE, label |-> "Cancel"],
           [type |-> "submit", form |-> "auth-code-form", onClick |-> "undefined",
            disabled |-> "false", loading |-> props.status = "validating",
            loadingText |-> "Connecting...", label |-> "default"],
           [control |-> "OAuthConnect", status |-> props.status,
            errorMessage |-> props.errorMessage, isWaitingForCode |-> TRUE])

\* if (isWaitingForCode) return ( ... )
WaitingForCodeView(props) ==
    Layout("Enter Authorization Code",
           [onClick |-> "onCancelOAuth", disabled |-> props.status = "validating",
            label |-> "Cancel"],
           [type |-> "submit", form |-> "auth-code-form", onClick |-> "undefined",
            disabled |-> "false", loading |-> props.status = "validating",
            loadingText |-> "Connecting...", label |-> "default"],
           [control |-> "OAuthConnect", status |-> props.status,
            errorMessage |-> props.errorMessage, isWaitingForCode |-> TRUE])

\* the sign-in view: Use Existing Token when a token was found, else Sign in
OAuthView(props) ==
    LET hasExistingToken == Truthy(props.existingClaudeToken)
    IN  Layout("Connect Claude Account",
               [onClick |-> "onBack", disabled |-> props.status = "validating",
                label |-> "default"],
               [type |-> "undefined", form |-> "undefined",
                onClick |-> IF hasExistingToken THEN "onUseExistingClaudeToken"
                            ELSE "onStartOAuth",
                disabled |-> "undefined", loading |-> props.status = "validating",
                loadingText |-> "Connecting...",
                label |-> IF hasExistingToken THEN "Use Existing Token"
                          ELSE "Sign in with Claude"],
               [control |-> "OAuthConnect", status |-> props.status,
                errorMessage |-> props.errorMessage, isWaitingForCode |-> FALSE])

\* --- API Key flow ---
ApiKeyView(props) ==
    Layout("API Configuration",
           [onClick |-> "onBack", disabled |-> props.status = "validating",
            label |-> "default"],
           [type |-> "submit", form |-> "api-key-form", onClick |-> "undefined",
            disabled |-> "false", loading |-> props.status = "validating",
            loadingText |-> "Validating...", label |-> "default"],
           [control |-> "ApiKeyInput", status |-> props.status,
            errorMessage |-> props.errorMessage, isWaitingForCode |-> FALSE])

\* export function CredentialsStep(props)
CredentialsStep(props) ==
    LET isOAuth == props.apiSetupMethod = "claude_oauth"
    IN  IF isOAuth
        THEN IF props.isWaitingForCode = "true" THEN WaitingForCodeView(props)
             ELSE OAuthView(props)
        ELSE ApiKeyView(props)

\* the wizard shows the step, idle, with the method the user chose;
\* probe.fn tells whether the component has rendered the props it was given
InitCredentials ==
    /\ NothingLoaded
    /\ probe \in {[fn |-> "props", arg |-> props, out |-> Undefined] :
                    props \in {q \in CredentialsProps :
                                 q.status = "idle" /\ q.isWaitingForCode # "true"}}
    /\ page = PageInitial

\* React renders the component with the props it was given
RenderCredentialsStep ==
    /\ probe.fn = "props"
    /\ probe' = [fn |-> "CredentialsStep", arg |-> probe.arg,
                 out |-> CredentialsStep(probe.arg)]
    /\ UNCHANGED <<iconCache, logoUrlCache, calls, hook, logoHook, logoRequests,
                   last, nullResolved, page>>

\* the onboarding wizard passes a new status (and the flag of the code step)
ChangeCredentialsProps ==
    /\ probe.fn = "CredentialsStep"
    /\ \E status \in CredentialStatus, waiting \in {"undefined", "false", "true"} :
         /\ <<status, waiting>> # <<probe.arg.status, probe.arg.isWaitingForCode>>
         /\ probe' = [fn |-> "props",
                      arg |-> [probe.arg EXCEPT !.status = status,
                                                !.isWaitingForCode = waiting],
                      out |-> Undefined]
    /\ UNCHANGED <<iconCache, logoUrlCache, calls, hook, logoHook, logoRequests,
                   last, nullResolved, page>>

NextCredentials ==
    \/ RenderCredentialsStep
    \/ ChangeCredentialsProps

SpecCredentials == InitCredentials /\ [][NextCredentials]_vars

\* C39: whatever view CredentialsStep renders (API key, OAuth sign-in,
\* authorization code), its BackButton is given disabled exactly when status is
\* 'validating', the authorization-code view labels that button Cancel, and
\* its ContinueButton is given loading exactly when status is 'validating'
C39_ButtonsFollowValidating ==
    probe.fn = "CredentialsStep" =>
        /\ probe.out.title \in {"API Configuration", "Connect Claude Account",
                                "Enter Authorization Code"}
        /\ probe.out.back.disabled = (probe.arg.status = "validating")
        /\ probe.out.continue.loading = (probe.arg.status = "validating")
        /\ (probe.out.title = "Enter Authorization Code")
              = (probe.out.back.label = "Cancel")

\* C39 witness: the authorization-code view rendered while status is
\* 'validating', Cancel disabled and the Continue button loading
C39_Witness ==
    /\ probe.fn = "CredentialsStep"
    /\ probe.arg.status = "validating"
    /\ probe.out.title = "Enter Authorization Code"
    /\ probe.out.back.disabled
    /\ probe.out.continue.loading

====
